---- MODULE Spec2Model ----
(***************************************************************************)
(* Verification model of the Chinese-Elite pipeline: the Maintainer        *)
(* (scripts/clean_data.py, GraphCleaner) and the Merger                    *)
(* (scripts/merge_graphs.py, GraphMerger).                                 *)
(*                                                                         *)
(* JSON values are tagged records: a string JStr(s), any other scalar     *)
(* JNum, a list JList(xs) and an object JDict(f) with f a function from   *)
(* keys to JSON values.  A node or a relationship is a Python dict: a     *)
(* function whose domain is the set of keys it carries.                   *)
(***************************************************************************)
EXTENDS Integers, Sequences, FiniteSets, TLC

VARIABLES
    pc,                     \* GraphCleaner.run: the step about to run
    nodes,                  \* GraphCleaner.run: local list `nodes`
    relationships,          \* GraphCleaner.run: local list `relationships`
    master_graph,           \* the persisted master graph file
    list_file,              \* data/LIST.md, a list of lines
    false_relations_cache,  \* GraphCleaner.false_relations_cache
    link_cache,             \* WikipediaClient.link_cache
    stub,                   \* which answers the stubbed Wikipedia and LLM give
    pass,                   \* number of the Maintainer pass being run
    first_graph,            \* what the first pass persisted
    merger,                 \* GraphMerger: its maps and the position of run()
    data_files,             \* the fragment files under data/, in os.walk order
    processed_files,        \* data/processed_files.log
    limiter,                \* APIRateLimiter: its fields, the clock and the callers
    client                  \* WikipediaClient and the workers that call it

vars == <<pc, nodes, relationships, master_graph, list_file,
          false_relations_cache, link_cache, stub, pass, first_graph,
          merger, data_files, processed_files, limiter, client>>

merger_vars == <<merger, data_files, processed_files>>
cleaner_vars == <<nodes, relationships, false_relations_cache, pass, first_graph>>

-----------------------------------------------------------------------------
(* JSON values and Python dict helpers *)

JStr(s) == [k |-> "str", s |-> s]
JNum == [k |-> "num"]
JList(xs) == [k |-> "list", l |-> xs]
JDict(f) == [k |-> "dict", d |-> f]

EmptyDict == [z \in {} |-> JNum]

IsStr(v) == v.k = "str"
IsDict(v) == v.k = "dict"
IsStrList(v) == v.k = "list" /\ \A i \in 1..Len(v.l) : IsStr(v.l[i])

Has(d, key) == key \in DOMAIN d
Get(d, key, default) == IF key \in DOMAIN d THEN d[key] ELSE default
Del(d, key) == [x \in DOMAIN d \ {key} |-> d[x]]
Put(d, key, v) == [x \in DOMAIN d \cup {key} |-> IF x = key THEN v ELSE d[x]]
Restrict(d, keys) == [x \in DOMAIN d \cap keys |-> d[x]]
Update(d, e) == [x \in DOMAIN d \cup DOMAIN e |-> IF x \in DOMAIN e THEN e[x] ELSE d[x]]

Range(s) == {s[i] : i \in 1..Len(s)}

\* str.strip() on the strings of the model: "" and " " are the blank ones
Strip(s) == IF s = " " THEN "" ELSE s
\* `not str(val).strip()`: only a blank string makes it true
BlankValue(v) == IsStr(v) /\ Strip(v.s) = ""

-----------------------------------------------------------------------------
(* scripts/config.py *)

VALID_NODE_TYPES ==
    {"Person", "Organization", "Movement", "Event", "Location", "Document"}

NON_DIRECTED_LINK_TYPES ==
    {"SPOUSE_OF", "SIBLING_OF", "LOVER_OF", "RELATIVE_OF",
     "FRIEND_OF", "ENEMY_OF", "MET_WITH"}

PO == {"Person", "Organization"}
POEMD == {"Person", "Organization", "Event", "Movement", "Document"}

RELATIONSHIP_TYPE_RULES ==
    [SPOUSE_OF      |-> [source |-> {"Person"}, target |-> {"Person"}],
     CHILD_OF       |-> [source |-> {"Person"}, target |-> {"Person"}],
     SIBLING_OF     |-> [source |-> {"Person"}, target |-> {"Person"}],
     LOVER_OF       |-> [source |-> {"Person"}, target |-> {"Person"}],
     RELATIVE_OF    |-> [source |-> {"Person"}, target |-> {"Person"}],
     MET_WITH       |-> [source |-> {"Person"}, target |-> {"Person"}],
     BORN_IN        |-> [source |-> {"Person"}, target |-> {"Location"}],
     ALUMNUS_OF     |-> [source |-> {"Person"}, target |-> {"Organization"}],
     MEMBER_OF      |-> [source |-> PO, target |-> {"Organization"}],
     SUBORDINATE_OF |-> [source |-> PO, target |-> PO],
     FRIEND_OF      |-> [source |-> PO, target |-> PO],
     ENEMY_OF       |-> [source |-> PO, target |-> PO],
     FOUNDED        |-> [source |-> PO, target |-> {"Organization", "Movement"}],
     PUSHED         |-> [source |-> POEMD, target |-> POEMD],
     BLOCKED        |-> [source |-> POEMD, target |-> POEMD],
     INFLUENCED     |-> [source |-> POEMD, target |-> POEMD \cup {"Location"}]]

REL_CLEAN_NUM == 1000
MASTER_GRAPH_UPDATE_LIMIT == 20000
LIST_UPDATE_LIMIT == 20000

-----------------------------------------------------------------------------
(* Strings of the model: ids, titles and the conversions applied to them *)

\* the titles, in the order Python's sorted() gives them
TitleOrder == <<"A", "At", "B", "a">>
Rank(s) == CHOOSE i \in 1..Len(TitleOrder) : TitleOrder[i] = s

\* OpenCC('t2s').convert: "At" is the traditional spelling of "A"
t2s(s) == IF s = "At" THEN "A" ELSE s
\* OpenCC('s2t').convert
s2t(s) == IF s = "A" THEN "At" ELSE s

\* str.startswith('Q') and str.startswith(('BAIDU:', 'CDT:')) on the ids
QCodes == {"Q1", "Q2", "Q3"}
TempIds == {"BAIDU:B", "BAIDU:a", "CDT:a"}
IsQCode(id) == id \in QCodes
IsTempId(id) == id \in TempIds
\* old_id.split(':', 1)[-1]
OriginalName(id) == IF id = "BAIDU:B" THEN "B" ELSE IF id \in TempIds THEN "a" ELSE id

\* the ids, in the order Python compares them
IdOrder == <<"BAIDU:B", "BAIDU:a", "CDT:a", "Q1", "Q2", "Q3">>
IdRank(id) == CHOOSE i \in 1..Len(IdOrder) : IdOrder[i] = id

RECURSIVE sorted(_)
sorted(S) ==
    IF S = {} THEN <<>>
    ELSE LET m == CHOOSE x \in S : \A y \in S : Rank(x) <= Rank(y)
         IN  <<m>> \o sorted(S \ {m})

-----------------------------------------------------------------------------
(* GraphCleaner._prune_rels: step 4 *)

HasDescription(rel) ==
    LET properties == Get(rel, "properties", JNum)
        description == IF IsDict(properties)
                       THEN Get(properties.d, "description", JNum) ELSE JNum
    IN  /\ IsDict(description)
        /\ DOMAIN description.d # {}
        /\ ~ \A lang \in DOMAIN description.d : BlankValue(description.d[lang])

_prune_rels(rels) == SelectSeq(rels, HasDescription)

-----------------------------------------------------------------------------
(* GraphCleaner._validate_and_clean_schema: step 5 *)

\* for lang, value in list(props[key].items()): if not isinstance(value, str): del
CleanLangMap(v) ==
    JDict([lang \in {x \in DOMAIN v.d : IsStr(v.d[x])} |-> v.d[lang]])

\* keys whose value must be a map lang -> string; any other value deletes the key
CleanMapKeys(props, keys) ==
    [x \in {y \in DOMAIN props : y \in keys => IsDict(props[y])} |->
        IF x \in keys THEN CleanLangMap(props[x]) ELSE props[x]]

DropUnless(props, key, ok) ==
    IF Has(props, key) /\ ~ok THEN Del(props, key) ELSE props

CleanNodeProps(props) ==
    LET p1 == DropUnless(props, "period",
                  Has(props, "period") /\ (IsStr(props["period"]) \/ IsStrList(props["period"])))
        p2 == DropUnless(p1, "lifetime", Has(p1, "lifetime") /\ IsStr(p1["lifetime"]))
        p3 == DropUnless(p2, "gender", Has(p2, "gender") /\ IsStr(p2["gender"]))
        p4 == DropUnless(p3, "gender",
                  Has(p3, "gender") /\ p3["gender"].s \in {"Male", "Female"})
    IN  CleanMapKeys(p4, {"location", "birth_place", "death_place", "description"})

NodeIsValid(node) ==
    /\ Get(node, "id", "") # ""
    /\ Get(node, "type", "") \in VALID_NODE_TYPES

CleanNode(node) ==
    LET n1 == Restrict(node, {"id", "type", "name", "properties"})
    IN  IF ~Has(n1, "properties") THEN n1
        ELSE IF ~IsDict(n1["properties"]) THEN Del(n1, "properties")
        ELSE Put(n1, "properties", JDict(CleanNodeProps(n1["properties"].d)))

RelIsValid(rel, cleaned_nodes) ==
    LET source_id == Get(rel, "source", "")
        target_id == Get(rel, "target", "")
        rel_type == Get(rel, "type", "")
        valid_node_ids == {cleaned_nodes[i]["id"] : i \in 1..Len(cleaned_nodes)}
        \* node_id_to_type_map: the last node with the id decides
        TypeOf(id) == cleaned_nodes[CHOOSE i \in 1..Len(cleaned_nodes) :
                          /\ cleaned_nodes[i]["id"] = id
                          /\ \A j \in i+1..Len(cleaned_nodes) : cleaned_nodes[j]["id"] # id]["type"]
    IN  /\ source_id # "" /\ target_id # "" /\ rel_type # ""
        /\ source_id \in valid_node_ids /\ target_id \in valid_node_ids
        /\ rel_type \in DOMAIN RELATIONSHIP_TYPE_RULES
        /\ TypeOf(source_id) \in RELATIONSHIP_TYPE_RULES[rel_type].source
        /\ TypeOf(target_id) \in RELATIONSHIP_TYPE_RULES[rel_type].target

CleanRelProps(props) ==
    LET p1 == DropUnless(props, "start_date",
                  Has(props, "start_date") /\ (IsStr(props["start_date"]) \/ IsStrList(props["start_date"])))
        p2 == DropUnless(p1, "end_date",
                  Has(p1, "end_date") /\ (IsStr(p1["end_date"]) \/ IsStrList(p1["end_date"])))
    IN  CleanMapKeys(p2, {"position", "degree", "description"})

CleanRel(rel) ==
    LET r1 == Restrict(rel, {"source", "target", "type", "properties"})
    IN  IF ~Has(r1, "properties") THEN r1
        ELSE IF ~IsDict(r1["properties"]) THEN Del(r1, "properties")
        ELSE Put(r1, "properties", JDict(CleanRelProps(r1["properties"].d)))

MapSeq(s, F(_)) == [i \in 1..Len(s) |-> F(s[i])]

_validate_and_clean_schema(ns, rels) ==
    LET cleaned_nodes == MapSeq(SelectSeq(ns, NodeIsValid), CleanNode)
        Valid(rel) == RelIsValid(rel, cleaned_nodes)
    IN  [nodes |-> cleaned_nodes,
         relationships |-> MapSeq(SelectSeq(rels, Valid), CleanRel)]

-----------------------------------------------------------------------------
(* data/LIST.md.  A line is a section header "## <text>", an entry          *)
(* "<text>" (lang "zh") or "(xx) <text>", a comment or a blank line.         *)

Header(text) == [kind |-> "header", text |-> text]
Entry(lang, text) == [kind |-> "entry", lang |-> lang, text |-> text]
BlankLine == [kind |-> "blank"]
CommentLine == [kind |-> "comment"]

IsEntry(line) == line.kind = "entry"
\* the stripped text of an entry line, as a pair (lang, title)
EntryKey(line) == <<line.lang, line.text>>

\* str.capitalize() on the section names of the model
capitalize(text) ==
    CASE text = "person" -> "Person"
      [] text = "organization" -> "Organization"
      [] text = "misc" -> "Misc"
      [] OTHER -> text

\* ListStore.addTitles: simplified-form dedup against the whole file, then
\* append under "## new", creating the section at the end when it is missing
RECURSIVE add_titles_to_list(_, _)
add_titles_to_list(lines, titles) ==
    IF titles = <<>> THEN lines
    ELSE LET t == Head(titles)
             seen == {<<lines[i].lang, t2s(lines[i].text)>> :
                         i \in {j \in 1..Len(lines) : IsEntry(lines[j])}}
             new_at == {i \in 1..Len(lines) : lines[i] = Header("new")}
             first_new == CHOOSE i \in new_at : \A j \in new_at : i <= j
             later == {i \in first_new+1..Len(lines) : lines[i].kind = "header"}
             insert_pos == IF later = {} THEN Len(lines) + 1
                           ELSE CHOOSE i \in later : \A j \in later : i <= j
             added == IF new_at = {}
                      THEN lines \o <<BlankLine, Header("new"), BlankLine, Entry(t[1], t[2])>>
                      ELSE SubSeq(lines, 1, insert_pos - 1) \o <<Entry(t[1], t[2])>>
                           \o SubSeq(lines, insert_pos, Len(lines))
         IN  add_titles_to_list(
                 IF <<t[1], t2s(t[2])>> \in seen THEN lines ELSE added, Tail(titles))

\* ListStore.updateTitle: if `new` is already in the file (simplified
\* comparison) delete the `old` line, otherwise replace its text
update_title_in_list(lines, lang, old, new) ==
    LET present == \E i \in 1..Len(lines) :
                      IsEntry(lines[i]) /\ lines[i].lang = lang
                      /\ t2s(lines[i].text) = t2s(new) /\ lines[i].text # old
        IsOld(line) == IsEntry(line) /\ line.lang = lang /\ line.text = old
        NotOld(line) == ~IsOld(line)
        Rename(line) == IF IsOld(line) THEN Entry(lang, new) ELSE line
    IN  IF present THEN SelectSeq(lines, NotOld) ELSE MapSeq(lines, Rename)

-----------------------------------------------------------------------------
(* GraphCleaner._correct_node_types_from_list: step 3 *)

\* name_to_correct_type after reading lines i..Len(lines)
RECURSIVE name_to_correct_type(_, _, _, _)
name_to_correct_type(lines, i, current_category, map) ==
    IF i > Len(lines) THEN map
    ELSE LET line == lines[i]
         IN  IF line.kind = "header"
             THEN name_to_correct_type(lines, i + 1,
                      IF line.text \in {"", "new"} THEN "" ELSE capitalize(line.text), map)
             ELSE IF ~IsEntry(line) \/ current_category = "" \/ t2s(line.text) = ""
             THEN name_to_correct_type(lines, i + 1, current_category, map)
             ELSE name_to_correct_type(lines, i + 1, current_category,
                      Put(map, t2s(line.text), current_category))

\* zh-cn[0], else en[0], else nothing
CanonicalName(node) ==
    LET name_obj == Get(node, "name", EmptyDict)
    IN  IF Has(name_obj, "zh-cn") /\ name_obj["zh-cn"] # <<>> THEN name_obj["zh-cn"][1]
        ELSE IF Has(name_obj, "en") /\ name_obj["en"] # <<>> THEN name_obj["en"][1]
        ELSE ""

_correct_node_types_from_list(ns, lines) ==
    LET map == name_to_correct_type(lines, 1, "", EmptyDict)
        Correct(node) ==
            LET simplified == t2s(CanonicalName(node))
            IN  IF CanonicalName(node) # "" /\ Has(map, simplified)
                   /\ Get(node, "type", "") # map[simplified]
                THEN Put(node, "type", map[simplified])
                ELSE node
    IN  MapSeq(ns, Correct)

-----------------------------------------------------------------------------
(* GraphCleaner._resolve_temporary_nodes: step 8 *)

\* for key, val in temp_props.items(): deep update of dict values, else overwrite
MergeTempProps(existing_props, temp_props) ==
    [key \in DOMAIN existing_props \cup DOMAIN temp_props |->
        IF key \notin DOMAIN temp_props THEN existing_props[key]
        ELSE IF key \in DOMAIN existing_props /\ IsDict(existing_props[key])
                /\ IsDict(temp_props[key])
        THEN JDict(Update(existing_props[key].d, temp_props[key].d))
        ELSE temp_props[key]]

\* One iteration of `for node in temp_nodes`.  st.nodes is the node list (a
\* node object is its position), st.nodes_map maps an id to a position.
UpgradeOne(st, i, qcode) ==
    LET node == st.nodes[i]
        old_id == node["id"]
    IN  IF qcode = "" THEN st
        ELSE IF qcode \in DOMAIN st.nodes_map /\ st.nodes_map[qcode] # i
        THEN LET e == st.nodes_map[qcode]
                 existing_node == st.nodes[e]
                 temp_props == Get(node, "properties", JDict(EmptyDict))
                 merged == IF IsDict(temp_props) /\ DOMAIN temp_props.d # {}
                           THEN Put(existing_node, "properties",
                                  JDict(MergeTempProps(
                                      Get(existing_node, "properties", JDict(EmptyDict)).d,
                                      temp_props.d)))
                           ELSE existing_node
             IN  [nodes |-> [st.nodes EXCEPT ![e] = merged],
                  nodes_map |-> st.nodes_map,
                  id_remap |-> Put(st.id_remap, old_id, qcode)]
        ELSE [nodes |-> [st.nodes EXCEPT ![i] = Put(node, "id", qcode)],
              nodes_map |-> Put(st.nodes_map, qcode, i),
              id_remap |-> Put(st.id_remap, old_id, qcode)]

\* WikipediaClient.get_qcode (clients/wikipedia_client.py): the API answer for
\* the title, else for its traditional spelling; (qcode, final_title), "" = None
get_qcode(article_title, fetch) ==
    LET first == fetch[article_title]
        traditional_title == s2t(article_title)
    IN  IF first.qcode = "" /\ traditional_title # article_title
        THEN fetch[traditional_title] ELSE first

\* ... and its write to LIST.md when the API followed a redirect
ListAfterGetQcode(lines, article_title, fetch) ==
    LET res == get_qcode(article_title, fetch)
    IN  IF res.qcode # "" /\ res.title # "" /\ res.title # article_title
        THEN update_title_in_list(lines, "zh", article_title, res.title)
        ELSE lines

RECURSIVE UpgradeLoop(_, _, _)
UpgradeLoop(st, temp_nodes, fetch) ==
    IF temp_nodes = <<>> THEN st
    ELSE LET i == Head(temp_nodes)
             original_name == OriginalName(st.nodes[i]["id"])
             up == UpgradeOne(st, i, get_qcode(original_name, fetch).qcode)
         IN  UpgradeLoop(
                 [nodes |-> up.nodes, nodes_map |-> up.nodes_map, id_remap |-> up.id_remap,
                  list |-> ListAfterGetQcode(st.list, original_name, fetch)],
                 Tail(temp_nodes), fetch)

\* {n['id']: n for n in nodes}: the last node with an id wins
NodesMap(ns) ==
    [id \in {ns[i]["id"] : i \in 1..Len(ns)} |->
        CHOOSE i \in 1..Len(ns) :
            ns[i]["id"] = id /\ \A j \in i+1..Len(ns) : ns[j]["id"] # id]

RECURSIVE Ascending(_)
Ascending(S) ==
    IF S = {} THEN <<>>
    ELSE LET m == CHOOSE x \in S : \A y \in S : x <= y
         IN  <<m>> \o Ascending(S \ {m})

\* a remap that forgets the target
RemapSourceOnly(rel, id_remap) ==
    IF Has(rel, "source") /\ rel["source"] \in DOMAIN id_remap
    THEN Put(rel, "source", id_remap[rel["source"]]) ELSE rel

RemapRel(rel, id_remap) ==
    LET r1 == IF Has(rel, "source") /\ rel["source"] \in DOMAIN id_remap
              THEN Put(rel, "source", id_remap[rel["source"]]) ELSE rel
    IN  IF Has(r1, "target") /\ r1["target"] \in DOMAIN id_remap
        THEN Put(r1, "target", id_remap[r1["target"]]) ELSE r1

\* an upgrade that rewrites the relationships and leaves the node list alone
RemapOnly(ns, rels, lines, fetch) ==
    LET temp_nodes == Ascending({i \in 1..Len(ns) : IsTempId(ns[i]["id"])})
        st == UpgradeLoop([nodes |-> ns, nodes_map |-> NodesMap(ns),
                           id_remap |-> EmptyDict, list |-> lines], temp_nodes, fetch)
        Remap(rel) == RemapRel(rel, st.id_remap)
    IN  [nodes |-> ns, relationships |-> MapSeq(rels, Remap), list |-> st.list]

_resolve_temporary_nodes(ns, rels, lines, fetch) ==
    LET temp_nodes == Ascending({i \in 1..Len(ns) : IsTempId(ns[i]["id"])})
        st == UpgradeLoop([nodes |-> ns, nodes_map |-> NodesMap(ns),
                           id_remap |-> EmptyDict, list |-> lines], temp_nodes, fetch)
        nodes_to_delete == DOMAIN st.id_remap
        Kept(n) == n["id"] \notin nodes_to_delete
        Remap(rel) == RemapRel(rel, st.id_remap)
    IN  [nodes |-> SelectSeq(st.nodes, Kept),
         relationships |-> MapSeq(rels, Remap),
         list |-> st.list]

-----------------------------------------------------------------------------
(* GraphCleaner._update_master_graph_names: step 1 *)

\* random.sample(list(S), limit) when S is larger than the limit, else all of S
Samples(S, limit) ==
    IF Cardinality(S) > limit THEN {T \in SUBSET S : Cardinality(T) = limit} ELSE {S}

\* the orders in which a Python set can be iterated
RECURSIVE Orders(_)
Orders(S) ==
    IF S = {} THEN {<<>>}
    ELSE UNION {{<<x>> \o rest : rest \in Orders(S \ {x})} : x \in S}

\* 'zh' if lang_key == 'zh-cn' else lang_key, and back
ApiLang(lang_key) == IF lang_key = "zh-cn" THEN "zh" ELSE lang_key
LangKey(lang) == IF lang = "zh" THEN "zh-cn" ELSE lang

TasksOf(ns, qcode) ==
    {"zh", "en"} \cup
    {ApiLang(lang_key) : lang_key \in DOMAIN Get(ns[NodesMap(ns)[qcode]], "name", EmptyDict)}

\* a check that takes only OK for a validation
QcodesWithoutOk(ns, qcodes_to_process, title_by_qcode) ==
    {q \in qcodes_to_process :
        \A lang \in TasksOf(ns, q) : title_by_qcode[<<q, lang>>].status # "OK"}

\* a Q-code no language validated: neither OK nor ERROR among its statuses
BadQcodes(ns, qcodes_to_process, title_by_qcode) ==
    {q \in qcodes_to_process :
        \A lang \in TasksOf(ns, q) : title_by_qcode[<<q, lang>>].status \notin {"OK", "ERROR"}}

\* auth_title_map: the (qcode, lang) pairs answered OK with a title
AuthTitles(ns, qcodes_to_process, title_by_qcode) ==
    {t \in {<<q, lang>> : q \in qcodes_to_process, lang \in {"zh", "en"}} :
        /\ t[2] \in TasksOf(ns, t[1])
        /\ title_by_qcode[t].status = "OK"
        /\ title_by_qcode[t].title # ""}

\* the new name list of one language: canonical first, the others sorted
RefreshNames(current_names, title, lang_key) ==
    LET name_set == {title} \cup Range(current_names)
        converted == IF lang_key = "zh-cn" THEN {t2s(n) : n \in name_set} ELSE name_set
        canonical_name == IF lang_key = "zh-cn" THEN t2s(title) ELSE title
    IN  <<canonical_name>> \o sorted(converted \ {canonical_name})

RefreshNode(node, auth, title_by_qcode) ==
    LET langs == {t[2] : t \in {u \in auth : u[1] = node["id"]}}
        name_obj == Get(node, "name", EmptyDict)
    IN  IF langs = {} THEN node
        ELSE Put(node, "name",
               [lang_key \in DOMAIN name_obj \cup {LangKey(l) : l \in langs} |->
                  IF ApiLang(lang_key) \in langs
                  THEN RefreshNames(Get(name_obj, lang_key, <<>>),
                           title_by_qcode[<<node["id"], ApiLang(lang_key)>>].title, lang_key)
                  ELSE name_obj[lang_key]])

\* the titles step 1 hands to add_titles_to_list: "(xx) title", or "title" for zh
TitlesToAdd(auth, title_by_qcode) ==
    {<<t[2], title_by_qcode[t].title>> : t \in auth}

_update_master_graph_names(ns, rels, lines, qcodes_to_process, title_by_qcode, order) ==
    LET bad_qcodes == BadQcodes(ns, qcodes_to_process, title_by_qcode)
        auth == AuthTitles(ns, qcodes_to_process, title_by_qcode)
        Good(n) == Get(n, "id", "") \notin bad_qcodes
        kept == IF bad_qcodes = {} THEN ns ELSE SelectSeq(ns, Good)
        valid_ids == {kept[i]["id"] : i \in 1..Len(kept)}
        Linked(r) == Get(r, "source", "") \in valid_ids /\ Get(r, "target", "") \in valid_ids
        Refresh(n) == RefreshNode(n, auth, title_by_qcode)
    IN  [nodes |-> MapSeq(kept, Refresh),
         relationships |-> IF bad_qcodes = {} THEN rels ELSE SelectSeq(rels, Linked),
         list |-> add_titles_to_list(lines, order)]

AllQcodes(ns) == {ns[i]["id"] : i \in {j \in 1..Len(ns) : IsQCode(Get(ns[j], "id", ""))}}

-----------------------------------------------------------------------------
(* GraphCleaner._update_list_names: step 2 *)

NoEntry == <<>>

\* the worker of step 2: the authoritative form of one entry and its status
ListWorker(key, title_status) ==
    LET lang == key[1]
        original_title == key[2]
        simplified_title == t2s(original_title)
        traditional_title == s2t(original_title)
        simp_res == title_status[<<simplified_title, "zh">>]
        trad_res == title_status[<<traditional_title, "zh">>]
        is_simp_stable == simp_res.status = "OK" /\ simp_res.title = simplified_title
        is_trad_stable == trad_res.status = "OK" /\ trad_res.title = traditional_title
        zh_res == IF original_title = traditional_title /\ is_trad_stable THEN trad_res
                  ELSE IF original_title = simplified_title /\ is_simp_stable THEN simp_res
                  ELSE IF is_trad_stable THEN trad_res
                  ELSE simp_res
        res == IF lang = "zh" THEN zh_res ELSE title_status[<<original_title, lang>>]
    IN  [original |-> key,
         final |-> IF res.title # "" THEN <<lang, res.title>> ELSE NoEntry,
         status |-> res.status]

\* follow raw_redirects from a task, stopping on a cycle
RECURSIVE FinalDest(_, _, _)
FinalDest(dest, visited, raw_redirects) ==
    IF dest \notin DOMAIN raw_redirects THEN dest
    ELSE LET next == raw_redirects[dest]
         IN  IF next \in visited THEN next
             ELSE FinalDest(next, visited \cup {next}, raw_redirects)

\* the rewrite of LIST.md, line by line (final_lines, seen_entries)
RECURSIVE RewriteList(_, _, _, _, _, _, _)
RewriteList(lines, i, tasks_to_run, bad_names, authoritative_map, final_lines, seen_entries) ==
    IF i > Len(lines) THEN final_lines
    ELSE LET line == lines[i]
         IN  IF ~IsEntry(line)
             THEN RewriteList(lines, i + 1, tasks_to_run, bad_names, authoritative_map,
                      Append(final_lines, line), seen_entries)
             ELSE IF EntryKey(line) \notin tasks_to_run
             THEN RewriteList(lines, i + 1, tasks_to_run, bad_names, authoritative_map,
                      Append(final_lines, line), seen_entries \cup {t2s(line.text)})
             ELSE IF EntryKey(line) \in bad_names
             THEN RewriteList(lines, i + 1, tasks_to_run, bad_names, authoritative_map,
                      final_lines, seen_entries)
             ELSE LET final_title == Get(authoritative_map, EntryKey(line), EntryKey(line))
                      simplified_final == t2s(final_title[2])
                  IN  IF simplified_final \in seen_entries
                      THEN RewriteList(lines, i + 1, tasks_to_run, bad_names,
                               authoritative_map, final_lines, seen_entries)
                      ELSE RewriteList(lines, i + 1, tasks_to_run, bad_names,
                               authoritative_map,
                               Append(final_lines, Entry(final_title[1], final_title[2])),
                               seen_entries \cup {simplified_final})

_update_list_names(lines, tasks_to_run, title_status) ==
    LET results == {ListWorker(key, title_status) : key \in tasks_to_run}
        redirected == {r \in results : r.status = "OK" /\ r.original # r.final}
        raw_redirects == [key \in {r.original : r \in redirected} |->
                             (CHOOSE r \in redirected : r.original = key).final]
        bad == {r \in results : r \notin redirected /\ r.status \in {"DISAMBIG", "NOT_FOUND"}}
        bad_names == {r.original : r \in bad} \cup ({r.final : r \in bad} \ {NoEntry})
        authoritative_map == [key \in tasks_to_run \ bad_names |->
                                 FinalDest(key, {key}, raw_redirects)]
    IN  IF tasks_to_run = {} THEN lines
        ELSE RewriteList(lines, 1, tasks_to_run, bad_names, authoritative_map, <<>>, {})

ListTasks(lines) == {EntryKey(lines[i]) : i \in {j \in 1..Len(lines) : IsEntry(lines[j])}}

-----------------------------------------------------------------------------
(* GraphCleaner._clean_individual_relationships: step 6 *)

\* GraphCleaner._get_canonical_rel_key: f"{source}-{target}-{rel_type}", or None
CacheKey(rel) ==
    IF Get(rel, "source", "") = "" \/ Get(rel, "target", "") = "" \/ Get(rel, "type", "") = ""
    THEN <<>>
    ELSE <<rel["source"], rel["target"], rel["type"]>>

\* The age of a false-relations cache entry: "fresh" (at most REL_CLEAN_SKIP_DAYS
\* old), "ramp" (in the probabilistic zone), "old" (beyond it), "bad" (timestamp
\* unreadable).  `lucky` are the ramp keys random.random() lets through.
IsCandidate(rel, cache, lucky) ==
    LET key == CacheKey(rel)
    IN  /\ key # <<>>
        /\ \/ key \notin DOMAIN cache
           \/ cache[key] \in {"old", "bad"}
           \/ cache[key] = "ramp" /\ key \in lucky

\* BATCH_SIZE, MAX_ROUNDS, COOLDOWN_SECONDS = 30, 20, 30
MAX_ROUNDS == 20

\* The rounds of the audit.  `decision[round]` is the answer a relationship gets
\* in that round: "TRUE" marks it for deletion, "FALSE" refreshes its cache
\* entry, "NONE" (a null answer or an exception) sends it to the next round.
RECURSIVE AuditRounds(_, _, _, _)
AuditRounds(st, round_num, rels, decision) ==
    IF round_num > MAX_ROUNDS \/ st.rels_to_check = {} THEN st
    ELSE LET Answer(i) == decision[round_num][CacheKey(rels[i])]
         IN  AuditRounds(
                 [rels_to_check |-> {i \in st.rels_to_check : Answer(i) = "NONE"},
                  ids_to_delete |-> st.ids_to_delete
                                    \cup {i \in st.rels_to_check : Answer(i) = "TRUE"},
                  kept_false |-> st.kept_false
                                 \cup {CacheKey(rels[i]) :
                                          i \in {j \in st.rels_to_check : Answer(j) = "FALSE"}}],
                 round_num + 1, rels, decision)

\* an audit that asks again about every sampled relationship in every round
RECURSIVE RetryEveryAnswer(_, _, _, _)
RetryEveryAnswer(rels_to_check, round_num, rels, decision) ==
    IF round_num > MAX_ROUNDS \/ rels_to_check = {} THEN <<>>
    ELSE <<rels_to_check>> \o RetryEveryAnswer(rels_to_check, round_num + 1, rels, decision)

\* the relationships is_relation_deletable is asked about, round by round:
\* each round submits the relationships of rels_to_check once and hands those
\* without an answer (failed_this_round) to the next round
RECURSIVE AuditQueries(_, _, _, _)
AuditQueries(rels_to_check, round_num, rels, decision) ==
    IF round_num > MAX_ROUNDS \/ rels_to_check = {} THEN <<>>
    ELSE LET failed_this_round ==
                 {i \in rels_to_check : decision[round_num][CacheKey(rels[i])] = "NONE"}
         IN  <<rels_to_check>> \o AuditQueries(failed_this_round, round_num + 1, rels, decision)

\* the final list and the cache, given what the rounds marked
AuditResult(rels, cache, ids_to_delete, kept_false) ==
    [relationships |-> [j \in 1..(Len(rels) - Cardinality(ids_to_delete)) |->
                           rels[Ascending(1..Len(rels) \ ids_to_delete)[j]]],
     cache |-> [key \in DOMAIN cache \cup kept_false |->
                   IF key \in kept_false THEN "fresh" ELSE cache[key]]]

\* an audit that deletes what is still unanswered after the last round
DeleteUnanswered(rels, cache, rels_to_check, decision) ==
    LET st == AuditRounds([rels_to_check |-> rels_to_check, ids_to_delete |-> {},
                           kept_false |-> {}], 1, rels, decision)
    IN  AuditResult(rels, cache, st.ids_to_delete \cup st.rels_to_check, st.kept_false)

_clean_individual_relationships(rels, cache, rels_to_check, decision) ==
    LET st == AuditRounds([rels_to_check |-> rels_to_check, ids_to_delete |-> {},
                           kept_false |-> {}], 1, rels, decision)
    IN  AuditResult(rels, cache, st.ids_to_delete, st.kept_false)

Candidates(rels, cache, lucky) == {i \in 1..Len(rels) : IsCandidate(rels[i], cache, lucky)}

-----------------------------------------------------------------------------
(* GraphCleaner._clean_stale_cache: step 7.  An entry of the link-status   *)
(* cache is [status, age], age "recent" (within 30 days), "stale" or       *)
(* "none" (no timestamp).                                                  *)

_clean_stale_cache(cache) ==
    [key \in {x \in DOMAIN cache : cache[x].age = "recent"} |-> cache[key]]

-----------------------------------------------------------------------------
(* GraphMerger._get_canonical_rel_key: the key relationships are deduplicated by *)

\* a key that keeps the direction of every type
DirectedKey(rel) == <<rel["source"], rel["target"], rel["type"]>>

_get_canonical_rel_key(rel) ==
    LET source == rel["source"]
        target == rel["target"]
    IN  IF rel["type"] \in NON_DIRECTED_LINK_TYPES /\ IdRank(target) < IdRank(source)
        THEN <<target, source, rel["type"]>>
        ELSE <<source, target, rel["type"]>>

-----------------------------------------------------------------------------
(* utils.add_title_to_list and the stubbed services of the Merger *)

\* add one title under "## new" unless a line already reads exactly the same
add_title_to_list(lines, lang, title) ==
    LET present == \E i \in 1..Len(lines) :
                       IsEntry(lines[i]) /\ EntryKey(lines[i]) = <<lang, title>>
        new_at == {i \in 1..Len(lines) : lines[i] = Header("new")}
        new_section_index == CHOOSE i \in new_at : \A j \in new_at : i <= j
        later == {i \in new_section_index+1..Len(lines) : lines[i].kind = "header"}
        insert_pos == IF later = {} THEN Len(lines) + 1
                      ELSE CHOOSE i \in later : \A j \in later : i <= j
    IN  IF title = "" \/ present THEN lines
        ELSE IF new_at = {}
        THEN lines \o <<BlankLine, Header("new"), BlankLine, Entry(lang, title)>>
        ELSE SubSeq(lines, 1, insert_pos - 1) \o <<Entry(lang, title)>>
             \o SubSeq(lines, insert_pos, Len(lines))

\* utils.WikipediaClient.get_qcode: the Q-code alone
get_qcode_id(article_title, fetch) == get_qcode(article_title, fetch).qcode

\* a client that caches whatever status it gets
CacheEveryStatus(cache, node_id, answers) ==
    LET fresh == answers[node_id]
    IN  IF node_id \in DOMAIN cache
        THEN [status |-> cache[node_id].status,
              detail |-> Get(cache[node_id], "detail", ""), cache |-> cache]
        ELSE [status |-> fresh.status, detail |-> fresh.detail,
              cache |-> Put(cache, node_id,
                            [status |-> fresh.status, detail |-> fresh.detail,
                             age |-> "recent"])]

\* utils.WikipediaClient.check_link_status: a cached answer if there is one, else
\* the answer of Wikipedia and the fallback sources, cached unless NO_PAGE/ERROR
check_link_status(cache, node_id, answers) ==
    LET fresh == answers[node_id]
    IN  IF node_id \in DOMAIN cache
        THEN [status |-> cache[node_id].status,
              detail |-> Get(cache[node_id], "detail", ""), cache |-> cache]
        ELSE [status |-> fresh.status, detail |-> fresh.detail,
              cache |-> IF fresh.status \in {"NO_PAGE", "ERROR"} THEN cache
                        ELSE Put(cache, node_id,
                                 [status |-> fresh.status, detail |-> fresh.detail,
                                  age |-> "recent"])]

(* APIRateLimiter: the daily quota (RPD) and the sliding window (RPM).     *)
(* Values a wrapped function returns are written as Python prints them.   *)

\* rpd_limit=None
NoLimit == -1

\* a limiter that never looks at the daily counter
UncheckedQuota(lim) == FALSE

\* _check_and_wait, lines 83-85: DailyQuotaExceededError is raised
QuotaExhausted(lim) == lim.rpd_limit # NoLimit /\ lim.daily_count >= lim.rpd_limit

\* "merge_llm" in func.__name__ / "cleaner_llm" in func.__name__, over the names
\* of the functions the repository wraps
ContainsMergeLlm(func_name) == func_name \in {"_should_trigger_merge_llm"}
ContainsCleanerLlm(func_name) == func_name \in {}

\* limit, lines 128-132: what the wrapper returns for a call it did not make
QuotaDefault(func_name) ==
    IF ContainsMergeLlm(func_name) THEN "True"
    ELSE IF ContainsCleanerLlm(func_name) THEN "[]"
    ELSE "None"

\* `if value:` on a returned value
Truthy(value) == value \notin {"None", "False", "[]"}

\* a limiter that leaves the counter alone
CountNothing(lim) == lim

\* _save_daily_counter: the count in the counter file after the write, which
\* stays as it was when the write raises IOError (lines 75-76)
_save_daily_counter(lim, written) ==
    IF written THEN [lim EXCEPT !.counter_file = lim.daily_count]
    ELSE [lim EXCEPT !.write_failed = TRUE]

\* increment_and_save: the counter after a call that counts
increment_and_save(lim) ==
    IF lim.rpd_limit # NoLimit THEN [lim EXCEPT !.daily_count = @ + 1] ELSE lim

\* _check_and_wait, lines 88-89: drop the timestamps that left the window
RECURSIVE Pruned(_, _, _)
Pruned(requests, now, per_seconds) ==
    IF requests # <<>> /\ requests[1] <= now - per_seconds
    THEN Pruned(Tail(requests), now, per_seconds)
    ELSE requests

\* a limiter that never sleeps
NoWait(requests, now, max_requests, per_seconds) == 0

\* _check_and_wait, lines 91-94: how long the caller sleeps, 0 for no sleep
WaitTime(requests, now, max_requests, per_seconds) ==
    IF Len(requests) >= max_requests /\ requests[1] - (now - per_seconds) > 0
    THEN requests[1] - (now - per_seconds)
    ELSE 0

\* GraphMerger._call_llm_for_merge: the LLM's JSON laid over a copy of the
\* existing item; without an answer the existing item comes back
NoResponse == [none |-> TRUE]

\* the other ways the merge call fails: generate_content raises, response.text
\* is empty, json.loads raises on response.text
Raised == [raised |-> TRUE]
EmptyText == [text |-> ""]
InvalidJson == [text |-> "{"]
MergeFailures == {NoResponse, Raised, EmptyText, InvalidJson}

_call_llm_for_merge(existing_item, merged_props) ==
    IF merged_props \in MergeFailures THEN existing_item
    ELSE Update(existing_item, merged_props)

\* @gemma_limiter.limit on _should_trigger_merge_llm: the model's answer, or the
\* wrapper's default when the daily quota is used up
ShouldTrigger(llm) ==
    IF QuotaExhausted(llm.gemma)
    THEN Truthy(QuotaDefault("_should_trigger_merge_llm"))
    ELSE llm.should_merge

\* @gemini_flash_limiter.limit on _call_llm_for_merge: the call is made
MergeAdmitted(llm) == ~QuotaExhausted(llm.gemini_flash)

\* Python's None where an item is expected
None == [none |-> TRUE]

\* the wrapped _call_llm_for_merge: what its caller receives, the wrapper's
\* default for this name being None
LimitedMerge(existing_item, llm, item_type) ==
    IF MergeAdmitted(llm) THEN _call_llm_for_merge(existing_item, llm.merged[item_type])
    ELSE None

\* should-merge check, then merge: what `existing_item` is after lines 263-269;
\* the None of a rejected merge call is dropped by `if merged_node_props:`
MergeItem(existing_item, llm, item_type) ==
    IF ShouldTrigger(llm) /\ LimitedMerge(existing_item, llm, item_type) # None
    THEN Update(existing_item, LimitedMerge(existing_item, llm, item_type))
    ELSE existing_item

\* the two daily counters after the check and the merge of one item: both
\* functions return a value whenever they run, so every admitted call counts
CountMerge(lim, llm) ==
    [gemma |-> IF QuotaExhausted(lim.gemma) THEN lim.gemma
               ELSE increment_and_save(lim.gemma),
     gemini_flash |-> IF ShouldTrigger(llm) /\ MergeAdmitted(llm)
                      THEN increment_and_save(lim.gemini_flash)
                      ELSE lim.gemini_flash]

-----------------------------------------------------------------------------
(* GraphMerger._merge_and_update_names *)

NoNode == [none |-> TRUE]

\* a merge that appends the new names to the existing ones as they come
AppendedNames(new_node, existing_node, canonical_name_override, primary_lang) ==
    LET old_obj == IF existing_node = NoNode THEN EmptyDict
                   ELSE Get(existing_node, "name", EmptyDict)
        new_obj == Get(new_node, "name", EmptyDict)
    IN  [lang \in DOMAIN old_obj \cup DOMAIN new_obj |->
            Get(old_obj, lang, <<>>) \o Get(new_obj, lang, <<>>)]

MergedNames(new_node, existing_node, canonical_name_override, primary_lang) ==
    LET old_obj == IF existing_node = NoNode THEN EmptyDict
                   ELSE Get(existing_node, "name", EmptyDict)
        new_obj == Get(new_node, "name", EmptyDict)
        Canon(lang) ==
            IF lang = primary_lang /\ canonical_name_override # "" THEN canonical_name_override
            ELSE IF Get(old_obj, lang, <<>>) # <<>> THEN old_obj[lang][1]
            ELSE IF Get(new_obj, lang, <<>>) # <<>> THEN new_obj[lang][1]
            ELSE ""
        all_names(lang) == Range(Get(old_obj, lang, <<>>)) \cup Range(Get(new_obj, lang, <<>>))
    IN  [lang \in {l \in DOMAIN old_obj \cup DOMAIN new_obj : Canon(l) # "" \/ l \in DOMAIN old_obj}
            |-> IF Canon(lang) # ""
                THEN <<Canon(lang)>> \o sorted(all_names(lang) \ {Canon(lang)})
                ELSE old_obj[lang]]

\* for name in names: if name not in self.name_to_qcode_map: map[name] = qcode
RegisterNames(name_to_qcode_map, name_obj, qcode) ==
    LET names == UNION {Range(name_obj[lang]) : lang \in DOMAIN name_obj}
    IN  [n \in DOMAIN name_to_qcode_map \cup names |->
            IF n \in DOMAIN name_to_qcode_map THEN name_to_qcode_map[n] ELSE qcode]

-----------------------------------------------------------------------------
(* GraphMerger._process_single_file, step 1: one node of the fragment.     *)
(* `st` holds the maps of the Merger, the order their keys were inserted   *)
(* in, LIST.md and the link cache; a fragment node is named in one         *)
(* language.                                                               *)

\* a fragment node whose "name" is a string, not an object: lines 241-247 raise
\* on it (a str has no .get), and _process_single_file returns False
NameIsString(new_node) == "k" \in DOMAIN Get(new_node, "name", EmptyDict)

\* a Merger that takes a file it cannot parse for an empty fragment
AlwaysReadable(file) == FALSE

\* json.load fails on the file, or its content is not a dict (lines 229-234)
Unreadable(file) == Get(file, "unreadable", FALSE)

PrimaryLang(new_node) ==
    LET name_obj == Get(new_node, "name", EmptyDict)
    IN  IF DOMAIN name_obj = {} THEN "" ELSE CHOOSE lang \in DOMAIN name_obj : TRUE

PrimaryName(new_node) ==
    LET name_obj == Get(new_node, "name", EmptyDict)
    IN  IF PrimaryLang(new_node) = "" \/ name_obj[PrimaryLang(new_node)] = <<>> THEN ""
        ELSE name_obj[PrimaryLang(new_node)][1]

\* self.master_nodes_map[key] = node
StoreNode(st, key, node) ==
    [st EXCEPT !.master_nodes_map = Put(@, key, node),
               !.node_keys = IF key \in DOMAIN st.master_nodes_map THEN @ ELSE Append(@, key)]

\* merge the fragment node into the node stored under qcode (lines 255-274, 304-313)
MergeIntoExisting(st, new_node, qcode, canonical_name_override, llm) ==
    LET existing_node == st.master_nodes_map[qcode]
        final_name_obj == MergedNames(new_node, existing_node, canonical_name_override,
                              PrimaryLang(new_node))
        named == Put(existing_node, "name", final_name_obj)
    IN  StoreNode([st EXCEPT !.name_to_qcode_map = RegisterNames(@, final_name_obj, qcode),
                             !.limiter = CountMerge(@, Update(llm, st.limiter))],
                  qcode, MergeItem(named, Update(llm, st.limiter), "node"))

\* list(dict.fromkeys(names_list))
RECURSIVE Dedup(_)
Dedup(names) ==
    IF names = <<>> THEN <<>>
    ELSE LET rest == Dedup(SubSeq(names, 1, Len(names) - 1))
         IN  IF names[Len(names)] \in Range(rest) THEN rest ELSE Append(rest, names[Len(names)])

\* f"BAIDU:{primary_name}" / f"CDT:{primary_name}"
TempId(status, primary_name) ==
    CASE status = "BAIDU" /\ primary_name = "B" -> "BAIDU:B"
      [] status = "BAIDU" /\ primary_name = "a" -> "BAIDU:a"
      [] status = "CDT" /\ primary_name = "a" -> "CDT:a"
      [] OTHER -> ""

\* lines 286-356: the node's name is new; status and detail are the link status
ResolveNewName(st, new_node, status, detail, wiki, llm) ==
    LET primary_lang == PrimaryLang(new_node)
        primary_name == PrimaryName(new_node)
        api_lang == IF primary_lang = "zh-cn" THEN "zh" ELSE primary_lang
        qcode == get_qcode_id(primary_name, wiki.fetch)
        canonical_name_override ==
            IF status = "SIMP_TRAD_REDIRECT" /\ detail # ""
            THEN (IF api_lang = "zh" THEN t2s(detail) ELSE detail) ELSE ""
        listed == [st EXCEPT !.list_file =
                      add_title_to_list(@, api_lang, canonical_name_override)]
        Local(s, id) == [s EXCEPT !.local_name_to_final_id_map = Put(@, primary_name, id)]
        final_name_obj == MergedNames(new_node, NoNode, canonical_name_override, primary_lang)
        temp_id == TempId(status, primary_name)
    IN  IF qcode # "" /\ qcode \in DOMAIN st.master_nodes_map
        THEN Local(MergeIntoExisting(listed, new_node, qcode, canonical_name_override, llm),
                   qcode)
        ELSE IF qcode # ""
        THEN Local(StoreNode(
                     [listed EXCEPT
                        !.list_file = IF status = "OK"
                                      THEN add_title_to_list(@, api_lang, primary_name) ELSE @,
                        !.name_to_qcode_map = RegisterNames(@, final_name_obj, qcode)],
                     qcode, Put(Put(new_node, "id", qcode), "name", final_name_obj)),
                   qcode)
        ELSE IF temp_id # ""
        THEN Local(StoreNode(st, temp_id,
                       Put(Put(new_node, "id", temp_id), "name",
                           [lang \in DOMAIN new_node["name"] |-> Dedup(new_node["name"][lang])])),
                   temp_id)
        ELSE st

\* one iteration of `for new_node in new_data.get('nodes', [])`
ProcessNode(st, new_node, wiki, llm) ==
    LET primary_name == PrimaryName(new_node)
        link == check_link_status(st.link_cache, primary_name, wiki.links)
        checked == [st EXCEPT !.link_cache = link.cache]
    IN  IF primary_name = "" THEN st
        ELSE IF primary_name \in DOMAIN st.name_to_qcode_map
        THEN MergeIntoExisting(st, new_node, st.name_to_qcode_map[primary_name], "", llm)
        ELSE IF link.status \in {"REDIRECT", "DISAMBIG"} THEN checked
        ELSE ResolveNewName(checked, new_node, link.status, link.detail, wiki, llm)

\* local_name_to_final_id_map.get(name) or self.name_to_qcode_map.get(name)
ResolveName(st, name) ==
    IF Get(st.local_name_to_final_id_map, name, "") # ""
    THEN st.local_name_to_final_id_map[name]
    ELSE Get(st.name_to_qcode_map, name, "")

\* one iteration of `for new_rel in new_data.get('relationships', [])`
ProcessRel(st, new_rel, llm) ==
    LET source_id == ResolveName(st, Get(new_rel, "source", ""))
        target_id == ResolveName(st, Get(new_rel, "target", ""))
        resolved == Put(Put(new_rel, "source", source_id), "target", target_id)
        rel_key == _get_canonical_rel_key(resolved)
    IN  IF source_id = "" \/ target_id = "" \/ Get(new_rel, "type", "") = "" THEN st
        ELSE IF rel_key \in DOMAIN st.master_rels_map
        THEN [st EXCEPT !.master_rels_map =
                 Put(@, rel_key, MergeItem(st.master_rels_map[rel_key],
                                           Update(llm, st.limiter), "rel")),
                        !.limiter = CountMerge(@, Update(llm, st.limiter))]
        ELSE [st EXCEPT !.master_rels_map = Put(@, rel_key, resolved),
                        !.rel_keys = Append(@, rel_key)]

RECURSIVE ProcessNodes(_, _, _, _)
ProcessNodes(st, new_nodes, wiki, llm) ==
    IF new_nodes = <<>> THEN st
    ELSE ProcessNodes(ProcessNode(st, Head(new_nodes), wiki, llm), Tail(new_nodes), wiki, llm)

RECURSIVE ProcessRels(_, _, _)
ProcessRels(st, new_rels, llm) ==
    IF new_rels = <<>> THEN st
    ELSE ProcessRels(ProcessRel(st, Head(new_rels), llm), Tail(new_rels), llm)

\* GraphMerger._process_single_file on a readable, well-formed fragment
_process_single_file(st, new_data, wiki, llm) ==
    ProcessRels(ProcessNodes([st EXCEPT !.local_name_to_final_id_map = EmptyDict],
                             new_data.nodes, wiki, llm),
                new_data.relationships, llm)

\* `for file_path in source_files_to_process`
RECURSIVE ProcessFiles(_, _, _, _)
ProcessFiles(st, files, wiki, llm) ==
    IF files = <<>> THEN st
    ELSE ProcessFiles(_process_single_file(st, Head(files), wiki, llm), Tail(files), wiki, llm)

-----------------------------------------------------------------------------
(* GraphMerger._load_graph_and_log and the index GraphMerger.run builds *)

NodeIds(ns) == {ns[i]["id"] : i \in 1..Len(ns)}

\* self.name_to_qcode_map[name] = node_id, a later node overwriting an earlier one
RECURSIVE LoadNames(_, _)
LoadNames(ns, map) ==
    IF ns = <<>> THEN map
    ELSE LET node == Head(ns)
             name_obj == Get(node, "name", EmptyDict)
             names == UNION {Range(name_obj[lang]) : lang \in DOMAIN name_obj} \ {""}
         IN  LoadNames(Tail(ns),
                 IF Get(node, "id", "") = "" THEN map
                 ELSE [n \in DOMAIN map \cup names |->
                          IF n \in names THEN node["id"] ELSE map[n]])

RECURSIVE LoadRels(_, _)
LoadRels(rels, st) ==
    IF rels = <<>> THEN st
    ELSE LET key == _get_canonical_rel_key(Head(rels))
         IN  LoadRels(Tail(rels),
                 [st EXCEPT !.master_rels_map = Put(@, key, Head(rels)),
                            !.rel_keys = IF key \in DOMAIN st.master_rels_map THEN @
                                         ELSE Append(@, key)])

_load_graph_and_log(graph, lines, cache) ==
    LoadRels(graph.relationships,
        [master_nodes_map |-> [id \in NodeIds(graph.nodes) |-> graph.nodes[NodesMap(graph.nodes)[id]]],
         node_keys |-> Dedup(MapSeq(graph.nodes, LAMBDA n : n["id"])),
         name_to_qcode_map |-> LoadNames(graph.nodes, EmptyDict),
         master_rels_map |-> EmptyDict,
         rel_keys |-> <<>>,
         local_name_to_final_id_map |-> EmptyDict,
         list_file |-> lines,
         link_cache |-> cache])

\* list(self.master_nodes_map.values()), list(master_rels_map.values())
MergedGraph(st) ==
    [nodes |-> MapSeq(st.node_keys, LAMBDA key : st.master_nodes_map[key]),
     relationships |-> MapSeq(st.rel_keys, LAMBDA key : st.master_rels_map[key])]

-----------------------------------------------------------------------------
(* The stubbed services.  `stub` names, per service, which fixed answer    *)
(* table is installed; a table answers the same question the same way      *)
(* every time it is asked.                                                 *)

Titles == Range(TitleOrder)
NoTitle == [status |-> "NOT_FOUND", title |-> ""]
Ok(title) == [status |-> "OK", title |-> title]

\* WikipediaClient.get_authoritative_title_by_qcode(qcode, lang)
TitleByQcode(variant) ==
    [t \in QCodes \X {"zh", "en"} |->
        CASE variant = "ok" ->
               IF t[2] = "en" THEN NoTitle
               ELSE Ok(IF t[1] = "Q1" THEN "A" ELSE IF t[1] = "Q2" THEN "B" ELSE "a")
          [] variant = "bad" ->
               IF t[2] = "en" \/ t[1] = "Q1" THEN NoTitle
               ELSE Ok(IF t[1] = "Q2" THEN "B" ELSE "a")
          [] OTHER ->
               IF t[1] = "Q1" THEN Ok(IF t[2] = "zh" THEN "At" ELSE "B")
               ELSE IF t[1] = "Q2"
               THEN (IF t[2] = "zh" THEN [status |-> "ERROR", title |-> ""] ELSE NoTitle)
               ELSE [status |-> "DISAMBIG", title |-> "a"]]

\* WikipediaClient.get_authoritative_title_and_status(title, lang)
TitleStatus(variant) ==
    [t \in Titles \X {"zh", "en"} |->
        CASE variant = "ok" -> Ok(t[1])
          [] OTHER ->
               IF t[1] = "B" THEN [status |-> "DISAMBIG", title |-> "B"] ELSE Ok("A")]

\* WikipediaClient._fetch_qcode_from_api(title, 'zh')
FetchQcode(variant) ==
    [title \in Titles |->
        CASE variant = "Q1" /\ title = "a" -> [qcode |-> "Q1", title |-> "a"]
          [] variant = "Q3" /\ title = "a" -> [qcode |-> "Q3", title |-> "B"]
          [] variant = "wiki" /\ title \in {"A", "At"} -> [qcode |-> "Q1", title |-> "A"]
          [] variant = "wiki" /\ title = "B" -> [qcode |-> "Q2", title |-> "B"]
          [] variant = "same" -> [qcode |-> "Q1", title |-> "A"]
          [] OTHER -> [qcode |-> "", title |-> ""]]

\* LLMService.is_relation_deletable behind the rate limiter: "TRUE", "FALSE",
\* or "NONE" for a null answer, an exception or an exhausted daily quota
Decision(variant) ==
    [key \in (QCodes \cup TempIds) \X (QCodes \cup TempIds) \X DOMAIN RELATIONSHIP_TYPE_RULES |->
        CASE variant = "false" -> "FALSE"
          [] variant = "none" -> "NONE"
          [] OTHER -> IF key[3] = "MEMBER_OF" THEN "TRUE"
                      ELSE IF key[3] = "SPOUSE_OF" THEN "FALSE" ELSE "NONE"]

\* the answers round by round: "retry" answers nothing in the first round
DecisionRounds(variant) ==
    [round_num \in 1..MAX_ROUNDS |->
        IF variant = "retry"
        THEN (IF round_num = 1 THEN Decision("none") ELSE Decision("mixed"))
        ELSE Decision(variant)]

\* WikipediaClient.check_link_status, cache aside: (status, detail)
LinkStatus(variant) ==
    [name \in Titles |->
        CASE variant = "mixed" /\ name = "a" -> [status |-> "BAIDU", detail |-> ""]
          [] variant = "mixed" /\ name = "A" -> [status |-> "SIMP_TRAD_REDIRECT", detail |-> "At"]
          [] variant = "redirect" /\ name = "a" -> [status |-> "REDIRECT", detail |-> "B"]
          [] variant = "redirect" /\ name = "A" -> [status |-> "DISAMBIG", detail |-> ""]
          [] variant = "redirect" /\ name = "At" -> [status |-> "NO_PAGE", detail |-> ""]
          [] OTHER -> [status |-> "OK", detail |-> ""]]

\* the JSON the merge model answers with, for a node and for a relationship
MergeResponse(variant) ==
    CASE variant = "props" ->
           [node |-> [properties |-> JDict([description |-> JDict([zh |-> JStr("hello")])])],
            rel |-> [properties |-> JDict([description |-> JDict([zh |-> JStr("hello")])])]]
      [] variant = "identity" ->
           [node |-> [id |-> "Q2", properties |-> JDict(EmptyDict)],
            rel |-> [source |-> "Q2", target |-> "Q2"]]
      [] variant = "raise" -> [node |-> Raised, rel |-> Raised]
      [] variant = "empty" -> [node |-> EmptyText, rel |-> EmptyText]
      [] variant = "invalid" -> [node |-> InvalidJson, rel |-> InvalidJson]
      [] OTHER -> [node |-> NoResponse, rel |-> NoResponse]

-----------------------------------------------------------------------------
(* The inputs of a Maintainer run: the persisted graph, LIST.md, the caches *)

MaxRels == 2
MaxPasses == 2

Good == JDict([zh |-> JStr("d")])

Node(id, type, zh_name, props) ==
    [id |-> id, type |-> type, name |-> [x \in {"zh-cn"} |-> <<zh_name>>],
     properties |-> JDict(props)]

Rel(source, target, type, props) ==
    [source |-> source, target |-> target, type |-> type, properties |-> JDict(props)]

Described == [description |-> Good]

\* the relationships of the graph: at most MaxRels of a pool, in the pool's order
RECURSIVE Choices(_, _)
Choices(pool, n) ==
    IF n = 0 \/ pool = <<>> THEN {<<>>}
    ELSE Choices(Tail(pool), n) \cup {<<Head(pool)>> \o c : c \in Choices(Tail(pool), n - 1)}

Absent == [absent |-> TRUE]

\* every way of keeping or leaving out each node of a list of alternatives
RECURSIVE NodeLists(_)
NodeLists(alts) ==
    IF alts = <<>> THEN {<<>>}
    ELSE {IF h = Absent THEN t ELSE <<h>> \o t : h \in Head(alts), t \in NodeLists(Tail(alts))}

LinkedNodes ==
    NodeLists(<<{Absent, Node("Q1", "Person", "A", Described),
                 Node("Q1", "Organization", "A", Described)},
                {Node("Q2", "Person", "B", Described)},
                {Absent, Node("BAIDU:a", "Person", "a", [lifetime |-> JStr("1900")])},
                {Absent, Node("CDT:a", "Person", "a", Described)}>>)

LinkedRels ==
    <<Rel("BAIDU:a", "Q2", "SPOUSE_OF", Described),
      Rel("Q1", "Q2", "SPOUSE_OF", Described),
      Rel("Q2", "Q1", "CHILD_OF", Described),
      Rel("BAIDU:a", "Q2", "CHILD_OF", Described),
      Rel("Q1", "Q2", "CHILD_OF", Described),
      Rel("Q2", "Q1", "MEMBER_OF", Described),
      Rel("Q1", "Q3", "CHILD_OF", Described),
      Rel("CDT:a", "BAIDU:a", "SPOUSE_OF", Described)>>

\* graphs that differ in which nodes exist and how they are linked
LinkedGraphs ==
    {[nodes |-> ns, relationships |-> rels] :
        ns \in LinkedNodes, rels \in Choices(LinkedRels, MaxRels)}

ShapedNodes ==
    {Node("Q1", "Person", "A",
          [period |-> JStr("p"), gender |-> JStr("Male"), description |-> Good]),
     Node("Q1", "Organization", "A",
          [gender |-> JStr("Male"), lifetime |-> JStr("1900"), birth_place |-> Good]),
     Node("Q1", "Person", "A",
          [nickname |-> JStr("n"), description |-> JDict(EmptyDict)]),
     Node("Q1", "Person", "A",
          [gender |-> JStr("Other"), lifetime |-> JNum, location |-> JNum,
           description |-> JDict([zh |-> JNum])]),
     [id |-> "Q1", type |-> "Person", name |-> [x \in {"en"} |-> <<"A">>],
      properties |-> JNum, extra |-> JNum],
     Node("Q1", "Alien", "A", Described)}

ShapedRels ==
    <<[source |-> "Q1", target |-> "Q2", type |-> "FRIEND_OF"],
      Rel("Q1", "Q2", "ENEMY_OF", [description |-> JDict(EmptyDict)]),
      Rel("Q1", "Q2", "SUBORDINATE_OF", [description |-> JDict([zh |-> JNum])]),
      Rel("Q2", "Q1", "INFLUENCED", [description |-> JDict([zh |-> JStr("d"), en |-> JStr("")])]),
      Rel("Q2", "Q1", "BLOCKED", [description |-> JDict([zh |-> JStr(" ")])]),
      [source |-> "Q2", target |-> "Q1", type |-> "PUSHED", note |-> JNum,
       properties |-> JDict([description |-> Good, start_date |-> JNum,
                             position |-> JStr("p"), degree |-> JDict([zh |-> JNum])])]>>

\* graphs that differ in the shape of the properties they carry
ShapedGraphs ==
    {[nodes |-> <<n, Node("Q2", "Person", "B", Described)>>, relationships |-> rels] :
        n \in ShapedNodes, rels \in Choices(ShapedRels, MaxRels)}

\* graphs for the runs that vary the services, the list and the caches
PlainGraphs ==
    {[nodes |-> <<Node("Q1", "Person", "A", Described), Node("Q2", "Person", "B", Described),
                  Node("BAIDU:a", "Person", "a", Described)>>,
      relationships |-> rels] :
        rels \in {<<LinkedRels[2], LinkedRels[4]>>,
                  <<Rel("Q2", "Q1", "MEMBER_OF", Described), LinkedRels[1]>>}}

EmptyList == <<>>
SortedList ==
    <<Header("person"), Entry("zh", "B"), Header("organization"), Entry("zh", "At"),
      CommentLine, Header("new"), Entry("zh", "a"), BlankLine>>
LooseList == <<Header("organization"), Entry("zh", "a"), Entry("en", "B"), Entry("zh", "A")>>
PersonList == <<Header("person"), Entry("zh", "B"), Header("new"), Entry("zh", "a")>>
NewFirstList == <<Header("new"), Entry("zh", "At"), BlankLine, Header("person"), Entry("zh", "B")>>

OldCache ==
    [key \in {<<"Q1", "Q2", "SPOUSE_OF">>, <<"Q2", "Q1", "MEMBER_OF">>,
              <<"BAIDU:a", "Q2", "SPOUSE_OF">>} |->
        IF key[1] = "Q1" THEN "fresh" ELSE IF key[1] = "Q2" THEN "ramp" ELSE "old"]

AgedLinks ==
    [key \in {"A", "B", "a"} |->
        [status |-> "OK",
         age |-> IF key = "A" THEN "recent" ELSE IF key = "B" THEN "stale" ELSE "none"]]

PlainStub ==
    [titles |-> "ok", list |-> "ok", fetch |-> "none", decision |-> "false",
     links |-> "ok", should_merge |-> FALSE, merged |-> "none"]

\* the Merger before run()
\* gemma_limiter and gemini_flash_limiter: rpd_limit and the counter loaded
\* from the counter file
GEMMA_RPD == 16200
GEMINI_FLASH_RPD == 281
Limiters(gemma_count, gemini_flash_count) ==
    [gemma |-> [rpd_limit |-> GEMMA_RPD, daily_count |-> gemma_count],
     gemini_flash |-> [rpd_limit |-> GEMINI_FLASH_RPD, daily_count |-> gemini_flash_count]]
IdleLimiter == Limiters(0, 0)

\* a WikipediaClient nobody is calling
IdleClient == [requests |-> 0]

IdleMerger == [file_index |-> 0]

-----------------------------------------------------------------------------
(* GraphCleaner.run: one action per step of the pipeline *)

NoGraph == [nodes |-> <<>>, relationships |-> <<>>]

Init ==
    /\ pc = "step1"
    /\ client = IdleClient
    /\ pass = 1
    /\ nodes = <<>>
    /\ relationships = <<>>
    /\ first_graph = NoGraph
    /\ merger = IdleMerger
    /\ limiter = IdleLimiter
    /\ data_files = <<>>
    /\ processed_files = {}
    /\ \/ /\ master_graph \in LinkedGraphs
          /\ stub \in {[PlainStub EXCEPT !.fetch = f] : f \in {"none", "Q1", "Q3"}}
          /\ list_file = PersonList
          /\ false_relations_cache = EmptyDict
          /\ link_cache = EmptyDict
       \/ /\ master_graph \in ShapedGraphs
          /\ stub = PlainStub
          /\ list_file = EmptyList
          /\ false_relations_cache = EmptyDict
          /\ link_cache = AgedLinks
       \/ /\ master_graph \in PlainGraphs
          /\ stub \in [titles : {"ok", "bad", "trad"}, list : {"ok", "redirect"},
                       fetch : {"none", "Q3"}, decision : {"false", "none", "mixed", "retry"},
                       links : {"ok"}, should_merge : {FALSE}, merged : {"none"}]
          /\ list_file \in {EmptyList, SortedList, LooseList}
          /\ false_relations_cache \in {EmptyDict, OldCache}
          /\ link_cache = EmptyDict

\* graph_io.load_master_graph, then step 1
UpdateMasterGraphNames ==
    /\ pc = "step1"
    /\ LET ns == master_graph.nodes
           tbq == TitleByQcode(stub.titles)
       IN  \E qcodes_to_process \in Samples(AllQcodes(ns), MASTER_GRAPH_UPDATE_LIMIT) :
           \E order \in Orders(TitlesToAdd(AuthTitles(ns, qcodes_to_process, tbq), tbq)) :
               LET out == _update_master_graph_names(ns, master_graph.relationships,
                              list_file, qcodes_to_process, tbq, order)
               IN  /\ nodes' = out.nodes
                   /\ relationships' = out.relationships
                   /\ list_file' = out.list
    /\ pc' = "step2"
    /\ UNCHANGED merger_vars
    /\ UNCHANGED client
    /\ UNCHANGED limiter
    /\ UNCHANGED <<master_graph, false_relations_cache, link_cache, stub, pass, first_graph>>

UpdateListNames ==
    /\ pc = "step2"
    /\ \E tasks_to_run \in Samples(ListTasks(list_file), LIST_UPDATE_LIMIT) :
           list_file' = _update_list_names(list_file, tasks_to_run, TitleStatus(stub.list))
    /\ pc' = "step3"
    /\ UNCHANGED merger_vars
    /\ UNCHANGED client
    /\ UNCHANGED limiter
    /\ UNCHANGED <<nodes, relationships, master_graph, false_relations_cache, link_cache,
                   stub, pass, first_graph>>

CorrectNodeTypesFromList ==
    /\ pc = "step3"
    /\ nodes' = _correct_node_types_from_list(nodes, list_file)
    /\ pc' = "step4"
    /\ UNCHANGED merger_vars
    /\ UNCHANGED client
    /\ UNCHANGED limiter
    /\ UNCHANGED <<relationships, master_graph, list_file, false_relations_cache,
                   link_cache, stub, pass, first_graph>>

PruneRels ==
    /\ pc = "step4"
    /\ relationships' = _prune_rels(relationships)
    /\ pc' = "step5"
    /\ UNCHANGED merger_vars
    /\ UNCHANGED client
    /\ UNCHANGED limiter
    /\ UNCHANGED <<nodes, master_graph, list_file, false_relations_cache, link_cache,
                   stub, pass, first_graph>>

ValidateAndCleanSchema ==
    /\ pc = "step5"
    /\ LET out == _validate_and_clean_schema(nodes, relationships)
       IN  nodes' = out.nodes /\ relationships' = out.relationships
    /\ pc' = "step6"
    /\ UNCHANGED merger_vars
    /\ UNCHANGED client
    /\ UNCHANGED limiter
    /\ UNCHANGED <<master_graph, list_file, false_relations_cache, link_cache, stub,
                   pass, first_graph>>

CleanIndividualRelationships ==
    /\ pc = "step6"
    /\ \E lucky \in SUBSET {key \in DOMAIN false_relations_cache :
                              false_relations_cache[key] = "ramp"} :
       \E rels_to_check \in Samples(Candidates(relationships, false_relations_cache, lucky),
                                    REL_CLEAN_NUM) :
           LET out == _clean_individual_relationships(relationships, false_relations_cache,
                          rels_to_check, DecisionRounds(stub.decision))
           IN  relationships' = out.relationships /\ false_relations_cache' = out.cache
    /\ pc' = "step7"
    /\ UNCHANGED merger_vars
    /\ UNCHANGED client
    /\ UNCHANGED limiter
    /\ UNCHANGED <<nodes, master_graph, list_file, link_cache, stub, pass, first_graph>>

CleanStaleCache ==
    /\ pc = "step7"
    /\ link_cache' = _clean_stale_cache(link_cache)
    /\ pc' = "step8"
    /\ UNCHANGED merger_vars
    /\ UNCHANGED client
    /\ UNCHANGED limiter
    /\ UNCHANGED <<nodes, relationships, master_graph, list_file, false_relations_cache,
                   stub, pass, first_graph>>

ResolveTemporaryNodes ==
    /\ pc = "step8"
    /\ LET out == _resolve_temporary_nodes(nodes, relationships, list_file,
                      FetchQcode(stub.fetch))
       IN  nodes' = out.nodes /\ relationships' = out.relationships /\ list_file' = out.list
    /\ pc' = "save"
    /\ UNCHANGED merger_vars
    /\ UNCHANGED client
    /\ UNCHANGED limiter
    /\ UNCHANGED <<master_graph, false_relations_cache, link_cache, stub, pass, first_graph>>

\* graph_io.save_master_graph and _save_caches; the next run starts from the
\* file. An IOError while writing ends the process (sys.exit(1)) before the
\* caches are saved.
SaveMasterGraph ==
    /\ pc = "save"
    /\ \E written \in BOOLEAN :
          IF written
          THEN /\ master_graph' = [nodes |-> nodes, relationships |-> relationships]
               /\ first_graph' = IF pass = 1 THEN master_graph' ELSE first_graph
               /\ pc' = IF pass < MaxPasses THEN "step1" ELSE "done"
               /\ pass' = IF pass < MaxPasses THEN pass + 1 ELSE pass
          ELSE /\ pc' = "exit"
               /\ UNCHANGED <<master_graph, first_graph, pass>>
    /\ UNCHANGED merger_vars
    /\ UNCHANGED client
    /\ UNCHANGED limiter
    /\ UNCHANGED <<nodes, relationships, list_file, false_relations_cache, link_cache, stub>>

Next ==
    \/ UpdateMasterGraphNames
    \/ UpdateListNames
    \/ CorrectNodeTypesFromList
    \/ PruneRels
    \/ ValidateAndCleanSchema
    \/ CleanIndividualRelationships
    \/ CleanStaleCache
    \/ ResolveTemporaryNodes
    \/ SaveMasterGraph

Spec == Init /\ [][Next]_vars

-----------------------------------------------------------------------------
(* The inputs of a Merger run: the fragment files and the graph they are   *)
(* merged into                                                             *)

MaxFragNodes == 3
MaxFragRels == 1

FragNode(names) ==
    [type |-> "Person", name |-> [x \in {"zh-cn"} |-> names], properties |-> JDict(Described)]

FragNodes == {FragNode(<<"a">>), FragNode(<<"B", "a">>), FragNode(<<"A">>)}

FragRels ==
    <<Rel("a", "B", "SPOUSE_OF", Described),
      Rel("a", "A", "CHILD_OF", Described),
      Rel("A", "B", "CHILD_OF", [description |-> JDict([zh |-> JStr("e")])])>>

\* the lists of at most n elements of S
ListsUpTo(S, n) == UNION {[1..k -> S] : k \in 0..n}

Fragments(name, max_nodes) ==
    {[name |-> name, nodes |-> ns, relationships |-> rels] :
        ns \in ListsUpTo(FragNodes, max_nodes), rels \in Choices(FragRels, MaxFragRels)}

SeedGraph ==
    [nodes |-> <<Node("Q1", "Person", "A", Described),
                 Node("BAIDU:a", "Person", "a", Described)>>,
     relationships |-> <<Rel("Q1", "BAIDU:a", "SPOUSE_OF", Described)>>]

MergeStub(links, fetch, should_merge, merged) ==
    [PlainStub EXCEPT !.links = links, !.fetch = fetch,
                      !.should_merge = should_merge, !.merged = merged]

MergeInit ==
    /\ pc = "m_load"
    /\ client = IdleClient
    /\ pass = 1
    /\ nodes = <<>>
    /\ relationships = <<>>
    /\ first_graph = NoGraph
    /\ false_relations_cache = EmptyDict
    /\ link_cache = EmptyDict
    /\ merger = IdleMerger
    /\ \/ /\ \E f \in Fragments("f1", MaxFragNodes) : data_files = <<f>>
          /\ processed_files \in {{}, {"f1"}}
          /\ master_graph = NoGraph
          /\ list_file = EmptyList
          /\ stub \in {MergeStub(l, "wiki", TRUE, m) :
                         l \in {"mixed", "redirect"}, m \in {"props", "identity"}}
          /\ limiter = IdleLimiter
       \/ /\ \E f \in Fragments("f1", 1), g \in Fragments("f2", 1) : data_files = <<f, g>>
          /\ processed_files = {}
          /\ master_graph \in {NoGraph, SeedGraph}
          /\ list_file = PersonList
          /\ stub \in {MergeStub(l, q, m # "none", m) :
                         l \in {"ok", "mixed"}, q \in {"wiki", "same"},
                         m \in {"none", "props", "identity"}}
          /\ limiter = IdleLimiter
       \/ /\ \E f \in Fragments("f1", 1), g \in Fragments("f2", 1) : data_files = <<f, g>>
          /\ processed_files = {}
          /\ master_graph = SeedGraph
          /\ list_file = PersonList
          /\ stub \in {MergeStub("ok", "same", should_merge, m) :
                         should_merge \in BOOLEAN,
                         m \in {"none", "props", "raise", "empty", "invalid"}}
          /\ limiter \in {Limiters(g, f) : g \in {0, GEMMA_RPD}, f \in {0, GEMINI_FLASH_RPD}}

-----------------------------------------------------------------------------
(* GraphMerger.run: one action per node and per relationship of a fragment *)

MapFields ==
    {"master_nodes_map", "node_keys", "name_to_qcode_map", "master_rels_map", "rel_keys",
     "local_name_to_final_id_map"}

\* the maps of the Merger together with the files its helpers write
MergerState ==
    Update(Restrict(merger, MapFields),
           [list_file |-> list_file, link_cache |-> link_cache, limiter |-> limiter])

Wiki == [links |-> LinkStatus(stub.links), fetch |-> FetchQcode(stub.fetch)]
Llm == [should_merge |-> stub.should_merge, merged |-> MergeResponse(stub.merged)]

\* lines 402-415: load the graph and the log, list the files still to process
LoadGraphAndLog ==
    /\ pc = "m_load"
    /\ merger' = Update(Restrict(_load_graph_and_log(master_graph, list_file, link_cache),
                                 MapFields),
                        [source_files_to_process |->
                             SelectSeq(data_files, LAMBDA f : f.name \notin processed_files),
                         file_index |-> 1,
                         new_data |-> NoGraph,
                         files_processed_this_run |-> <<>>])
    /\ pc' = "m_file"
    /\ UNCHANGED <<master_graph, list_file, link_cache, stub, data_files, processed_files>>
    /\ UNCHANGED cleaner_vars
    /\ UNCHANGED client
    /\ UNCHANGED limiter

\* lines 228-236: read the next fragment
OpenFile ==
    /\ pc = "m_file"
    /\ merger.file_index <= Len(merger.source_files_to_process)
    /\ ~Unreadable(merger.source_files_to_process[merger.file_index])
    /\ merger' = [merger EXCEPT
                    !.new_data = [nodes |-> merger.source_files_to_process[merger.file_index].nodes,
                                  relationships |->
                                      merger.source_files_to_process[merger.file_index].relationships],
                    !.local_name_to_final_id_map = EmptyDict]
    /\ pc' = "m_node"
    /\ UNCHANGED <<master_graph, list_file, link_cache, stub, data_files, processed_files>>
    /\ UNCHANGED cleaner_vars
    /\ UNCHANGED client
    /\ UNCHANGED limiter

ProcessNextNode ==
    /\ pc = "m_node"
    /\ merger.new_data.nodes # <<>>
    /\ ~NameIsString(Head(merger.new_data.nodes))
    /\ LET out == ProcessNode(MergerState, Head(merger.new_data.nodes), Wiki, Llm)
       IN  /\ merger' = Update([merger EXCEPT !.new_data.nodes = Tail(@)],
                               Restrict(out, MapFields))
           /\ list_file' = out.list_file
           /\ link_cache' = out.link_cache
           /\ limiter' = out.limiter
    /\ UNCHANGED <<pc, master_graph, stub, data_files, processed_files>>
    /\ UNCHANGED cleaner_vars
    /\ UNCHANGED client

ProcessNextRel ==
    /\ pc = "m_node"
    /\ merger.new_data.nodes = <<>>
    /\ merger.new_data.relationships # <<>>
    /\ LET out == ProcessRel(MergerState, Head(merger.new_data.relationships), Llm)
       IN  /\ merger' = Update([merger EXCEPT !.new_data.relationships = Tail(@)],
                               Restrict(out, MapFields))
           /\ limiter' = out.limiter
    /\ UNCHANGED <<pc, master_graph, list_file, link_cache, stub, data_files, processed_files>>
    /\ UNCHANGED cleaner_vars
    /\ UNCHANGED client

\* lines 389, 418-420: the fragment is done and goes to the run's log
FileDone ==
    /\ pc = "m_node"
    /\ merger.new_data = NoGraph
    /\ merger' = [merger EXCEPT
                    !.files_processed_this_run =
                        Append(@, merger.source_files_to_process[merger.file_index].name),
                    !.file_index = @ + 1]
    /\ pc' = "m_file"
    /\ UNCHANGED <<master_graph, list_file, link_cache, stub, data_files, processed_files>>
    /\ UNCHANGED cleaner_vars
    /\ UNCHANGED client
    /\ UNCHANGED limiter

\* lines 432-436: the log is appended whether or not the graph was written
LogAfterSave(log, files_processed_this_run, written) ==
    log \cup Range(files_processed_this_run)

\* lines 422-439: write the graph, append the log and save the client's caches.
\* An IOError while writing the graph is logged and the run goes on.
SaveMergedGraph ==
    /\ pc = "m_file"
    /\ merger.file_index > Len(merger.source_files_to_process)
    /\ \E written \in BOOLEAN :
          /\ master_graph' =
                 IF written
                 THEN [nodes |-> MergedGraph(merger).nodes,
                       relationships |-> IF merger.source_files_to_process = <<>>
                                         THEN master_graph.relationships
                                         ELSE MergedGraph(merger).relationships]
                 ELSE master_graph
          /\ processed_files' =
                 LogAfterSave(processed_files, merger.files_processed_this_run, written)
          /\ merger' = Update(merger, [caches_saved |-> TRUE])
          /\ pc' = IF written THEN "m_done" ELSE "m_unsaved"
    /\ UNCHANGED <<list_file, link_cache, stub, data_files>>
    /\ UNCHANGED cleaner_vars
    /\ UNCHANGED client
    /\ UNCHANGED limiter

MergeNext ==
    \/ LoadGraphAndLog
    \/ OpenFile
    \/ ProcessNextNode
    \/ ProcessNextRel
    \/ FileDone
    \/ SaveMergedGraph

MergeSpec == MergeInit /\ [][MergeNext]_vars

-----------------------------------------------------------------------------
(* Merger runs one after the other, over fragments that can fail: a file  *)
(* that cannot be parsed, or a node that raises in the middle of a file.  *)
(* `pass` counts the runs.                                                 *)

MaxRuns == 2

BrokenNode == [type |-> "Person", name |-> JStr("a")]

\* the content of a fragment file: well-formed, raising at its second node,
\* raising at its first node, or not parseable
RunFragments(name) ==
    {[name |-> name, nodes |-> ns, relationships |-> rels] :
        ns \in {<<FragNode(<<"A">>)>>, <<FragNode(<<"B", "a">>), BrokenNode>>,
                <<BrokenNode, FragNode(<<"A">>)>>},
        rels \in Choices(FragRels, 1)}
    \cup {[name |-> name, nodes |-> <<>>, relationships |-> <<>>, unreadable |-> TRUE]}

RunsInit ==
    /\ pc = "m_load"
    /\ client = IdleClient
    /\ pass = 1
    /\ nodes = <<>>
    /\ relationships = <<>>
    /\ first_graph = NoGraph
    /\ false_relations_cache = EmptyDict
    /\ link_cache = EmptyDict
    /\ merger = IdleMerger
    /\ limiter = IdleLimiter
    /\ master_graph = NoGraph
    /\ list_file = PersonList
    /\ stub = MergeStub("mixed", "wiki", FALSE, "none")
    /\ \E e \in RunFragments("f0"), f \in RunFragments("f1"), g \in RunFragments("f2") :
          data_files = <<e, f, g>>
    /\ processed_files = {"f0"}

\* lines 229-234, 387-389: the file cannot be read as a JSON object; return False
SkipUnreadableFile ==
    /\ pc = "m_file"
    /\ merger.file_index <= Len(merger.source_files_to_process)
    /\ Unreadable(merger.source_files_to_process[merger.file_index])
    /\ merger' = [merger EXCEPT !.file_index = @ + 1]
    /\ UNCHANGED <<pc, master_graph, list_file, link_cache, stub, data_files, processed_files>>
    /\ UNCHANGED cleaner_vars
    /\ UNCHANGED client
    /\ UNCHANGED limiter

\* lines 390-393: a node raises; the exception is logged and the file returns
\* False, the maps staying as the earlier nodes of the file left them
FailOnNode ==
    /\ pc = "m_node"
    /\ merger.new_data.nodes # <<>>
    /\ NameIsString(Head(merger.new_data.nodes))
    /\ merger' = [merger EXCEPT !.new_data = NoGraph, !.file_index = @ + 1]
    /\ pc' = "m_file"
    /\ UNCHANGED <<master_graph, list_file, link_cache, stub, data_files, processed_files>>
    /\ UNCHANGED cleaner_vars
    /\ UNCHANGED client
    /\ UNCHANGED limiter

\* the next run of merge_graphs.py starts from the files the last one left
StartNextRun ==
    /\ pc \in {"m_done", "m_unsaved"}
    /\ pass < MaxRuns
    /\ pass' = pass + 1
    /\ merger' = IdleMerger
    /\ pc' = "m_load"
    /\ UNCHANGED <<master_graph, list_file, link_cache, stub, data_files, processed_files>>
    /\ UNCHANGED <<nodes, relationships, false_relations_cache, first_graph>>
    /\ UNCHANGED client
    /\ UNCHANGED limiter

RunsNext ==
    \/ LoadGraphAndLog
    \/ OpenFile
    \/ SkipUnreadableFile
    \/ ProcessNextNode
    \/ FailOnNode
    \/ ProcessNextRel
    \/ FileDone
    \/ SaveMergedGraph
    \/ StartNextRun

RunsSpec == RunsInit /\ [][RunsNext]_vars

-----------------------------------------------------------------------------
(* The Maintainer's invariants on the persisted graph *)

\* a complete pass has run and saved: master_graph is what it persisted
Saved == pass > 1 \/ pc = "done"

\* the types the nodes with this id have
TypesOf(ns, id) == {ns[i]["type"] : i \in {j \in 1..Len(ns) : ns[j]["id"] = id}}

\* C1: after a complete Maintainer pass every relationship of the persisted
\* graph has a source and a target that are ids of nodes of the persisted graph.
C1_EndpointsPersisted ==
    Saved =>
        \A i \in 1..Len(master_graph.relationships) :
            /\ master_graph.relationships[i]["source"] \in NodeIds(master_graph.nodes)
            /\ master_graph.relationships[i]["target"] \in NodeIds(master_graph.nodes)

\* C1's case: a pass saved a relationship whose endpoint step 8 rewrote to the
\* Q-code the temporary node was upgraded to.
C1_UpgradedEndpointSaved ==
    /\ Saved
    /\ stub.fetch = "Q3"
    /\ \E i \in 1..Len(master_graph.relationships) :
           master_graph.relationships[i]["source"] = "Q3"

\* C2: after a complete Maintainer pass every relationship of the persisted
\* graph satisfies RELATIONSHIP_TYPE_RULES for the types its source and target
\* have in the persisted graph, relationships rewritten by step 8 included.
C2_TypeRulesPersisted ==
    Saved =>
        \A i \in 1..Len(master_graph.relationships) :
            LET rel == master_graph.relationships[i]
            IN  /\ rel["type"] \in DOMAIN RELATIONSHIP_TYPE_RULES
                /\ TypesOf(master_graph.nodes, rel["source"])
                       \subseteq RELATIONSHIP_TYPE_RULES[rel["type"]].source
                /\ TypesOf(master_graph.nodes, rel["target"])
                       \subseteq RELATIONSHIP_TYPE_RULES[rel["type"]].target

\* C3: after a complete Maintainer pass no two relationships of the persisted
\* graph have the same canonical key.
C3_CanonicalKeysUnique ==
    Saved =>
        \A i, j \in 1..Len(master_graph.relationships) :
            i # j => _get_canonical_rel_key(master_graph.relationships[i])
                     # _get_canonical_rel_key(master_graph.relationships[j])

\* C4: right after schema validation (step 5) the properties of every node hold
\* only keys recognized for its type: no `period` on a Person, no `lifetime`,
\* `gender`, `birth_place`, `death_place` on another type, no unknown key.
C4_OnlyRecognizedNodeProperties ==
    pc = "step6" =>
        \A i \in 1..Len(nodes) :
            Has(nodes[i], "properties") =>
                LET keys == DOMAIN nodes[i]["properties"].d
                IN  /\ keys \subseteq {"period", "lifetime", "gender", "location",
                                       "birth_place", "death_place", "description"}
                    /\ nodes[i]["type"] = "Person" => "period" \notin keys
                    /\ nodes[i]["type"] # "Person" =>
                           keys \cap {"lifetime", "gender", "birth_place", "death_place"} = {}

\* `properties.description` is absent, or a non-empty map of non-blank strings
DescriptionOk(item) ==
    ~Has(item, "properties") \/ ~Has(item["properties"].d, "description")
    \/ LET description == item["properties"].d["description"]
       IN  /\ IsDict(description)
           /\ DOMAIN description.d # {}
           /\ \A lang \in DOMAIN description.d :
                  IsStr(description.d[lang]) /\ Strip(description.d[lang].s) # ""

\* C5: after a complete Maintainer pass, on every node and relationship of the
\* persisted graph `properties.description` is absent or a non-empty map whose
\* values are all non-empty strings.
C5_DescriptionsNonEmpty ==
    Saved =>
        /\ \A i \in 1..Len(master_graph.nodes) : DescriptionOk(master_graph.nodes[i])
        /\ \A i \in 1..Len(master_graph.relationships) :
               DescriptionOk(master_graph.relationships[i])

\* C6: with stubs that answer deterministically (and no relationship in the
\* randomly sampled age zone of the audit cache), the graph the second pass
\* persists equals the graph the first pass persisted.
C6_SecondPassIdempotent ==
    (/\ pc = "done"
     /\ \A key \in DOMAIN false_relations_cache : false_relations_cache[key] # "ramp")
        => master_graph = first_graph

-----------------------------------------------------------------------------
(* The Merger's identity resolution *)

\* the next node of the fragment being processed
NextNode == Head(merger.new_data.nodes)

\* C7: when the primary name P of a fragment node is already a key of
\* name_to_qcode_map, for a node N, processing the node adds no key to the node
\* map, and once the fragment's nodes are processed P resolves to N's id for
\* the fragment's relationships.
C7_KnownNameMergesIntoExisting ==
    (/\ pc = "m_node"
     /\ merger.new_data.nodes # <<>>
     /\ PrimaryName(NextNode) \in DOMAIN merger.name_to_qcode_map)
    => /\ DOMAIN ProcessNode(MergerState, NextNode, Wiki, Llm).master_nodes_map
              = DOMAIN merger.master_nodes_map
       /\ ResolveName(ProcessNodes(MergerState, merger.new_data.nodes, Wiki, Llm),
                      PrimaryName(NextNode))
              = merger.name_to_qcode_map[PrimaryName(NextNode)]

\* C8: after a Merger run the persisted graph holds exactly one node for every
\* Q-code the node map has a key for.
C8_OneNodePerQcode ==
    pc = "m_done" =>
        \A q \in Range(merger.node_keys) \cap QCodes :
            Cardinality({i \in 1..Len(master_graph.nodes) :
                            master_graph.nodes[i]["id"] = q}) = 1

\* the relationships of a fragment that name P as source or target
Naming(new_rels, P) ==
    {k \in 1..Len(new_rels) : new_rels[k]["source"] = P \/ new_rels[k]["target"] = P}

\* C9: when the primary name P of a fragment node is new, has no Q-code and
\* its link status is REDIRECT or DISAMBIG, the node is not added and no
\* relationship of the fragment with source or target P enters the relationship
\* index.
C9_DroppedNameLeavesNoRelationship ==
    (/\ pc = "m_node"
     /\ merger.new_data.nodes # <<>>
     /\ PrimaryName(NextNode) # ""
     /\ PrimaryName(NextNode) \notin DOMAIN merger.name_to_qcode_map
     /\ get_qcode_id(PrimaryName(NextNode), Wiki.fetch) = ""
     /\ check_link_status(link_cache, PrimaryName(NextNode), Wiki.links).status
            \in {"REDIRECT", "DISAMBIG"})
    => LET P == PrimaryName(NextNode)
           new_rels == merger.new_data.relationships
           after_nodes == ProcessNodes(MergerState, merger.new_data.nodes, Wiki, Llm)
           Before(k) == ProcessRels(after_nodes, SubSeq(new_rels, 1, k - 1), Llm)
       IN  /\ ProcessNode(MergerState, NextNode, Wiki, Llm).master_nodes_map
                  = merger.master_nodes_map
           /\ \A k \in Naming(new_rels, P) :
                  ProcessRel(Before(k), new_rels[k], Llm).master_rels_map
                      = Before(k).master_rels_map

\* the files of the run, taken in another order
Reordered(files, order) == [i \in 1..Len(files) |-> files[order[i]]]

\* C10: with the files all processed, the keys of the relationship index are
\* those the same run would have produced taking the files in any other order.
C10_RelationshipsOrderIndependent ==
    (pc = "m_file" /\ merger.file_index > Len(merger.source_files_to_process))
    => \A order \in Orders(1..Len(merger.source_files_to_process)) :
           DOMAIN ProcessFiles(Update(_load_graph_and_log(master_graph, list_file,
                                                          link_cache),
                                      [limiter |-> limiter]),
                               Reordered(merger.source_files_to_process, order),
                               Wiki, Llm).master_rels_map
               = DOMAIN merger.master_rels_map

-----------------------------------------------------------------------------
(* The Merger's relationship index *)

\* the Merger has loaded the graph and built its maps
Loaded == pc \in {"m_file", "m_node", "m_done"}

\* the next relationship of the fragment, once its nodes are processed
RelsTurn == pc = "m_node" /\ merger.new_data.nodes = <<>> /\ merger.new_data.relationships # <<>>
NextRel == Head(merger.new_data.relationships)

\* the same relationship named in the other direction
Reversed(rel) == [rel EXCEPT !["source"] = rel["target"], !["target"] = rel["source"]]

\* C11: the relationship index holds one relationship per canonical key: its
\* keys are the values saved, the key of an undirected type has its endpoints
\* in sorted order, and inserting a relationship again, or an undirected
\* relationship in the other direction, adds no entry.
C11_OneRelationshipPerCanonicalKey ==
    /\ Loaded =>
          /\ Len(merger.rel_keys) = Cardinality(DOMAIN merger.master_rels_map)
          /\ Range(merger.rel_keys) = DOMAIN merger.master_rels_map
          /\ \A k \in DOMAIN merger.master_rels_map :
                 k[3] \in NON_DIRECTED_LINK_TYPES => IdRank(k[1]) <= IdRank(k[2])
    /\ RelsTurn =>
          LET once == ProcessRel(MergerState, NextRel, Llm)
          IN  /\ DOMAIN ProcessRel(once, NextRel, Llm).master_rels_map
                     = DOMAIN once.master_rels_map
              /\ NextRel["type"] \in NON_DIRECTED_LINK_TYPES =>
                     DOMAIN ProcessRel(once, Reversed(NextRel), Llm).master_rels_map
                         = DOMAIN once.master_rels_map

\* C11's case: an undirected relationship between two different nodes enters
\* the index under a new key.
C11_UndirectedRelationshipInserted ==
    /\ RelsTurn
    /\ NextRel["type"] \in NON_DIRECTED_LINK_TYPES
    /\ ResolveName(MergerState, NextRel["source"]) # ""
    /\ ResolveName(MergerState, NextRel["target"]) # ""
    /\ ResolveName(MergerState, NextRel["source"]) # ResolveName(MergerState, NextRel["target"])
    /\ DOMAIN ProcessRel(MergerState, NextRel, Llm).master_rels_map
           # DOMAIN merger.master_rels_map

-----------------------------------------------------------------------------
(* The LLM merge *)

\* the node the next fragment node is merged into by its known name (Case 1)
KnownNode ==
    /\ pc = "m_node"
    /\ merger.new_data.nodes # <<>>
    /\ PrimaryName(NextNode) \in DOMAIN merger.name_to_qcode_map
KnownId == merger.name_to_qcode_map[PrimaryName(NextNode)]

\* the canonical key the next relationship of the fragment resolves to
ResolvedKey ==
    _get_canonical_rel_key(
        [NextRel EXCEPT !["source"] = ResolveName(MergerState, NextRel["source"]),
                        !["target"] = ResolveName(MergerState, NextRel["target"])])

\* ... and that key is in the index already
KnownRel ==
    /\ RelsTurn
    /\ ResolveName(MergerState, NextRel["source"]) # ""
    /\ ResolveName(MergerState, NextRel["target"]) # ""
    /\ ResolvedKey \in DOMAIN merger.master_rels_map

\* C12: after a node or a relationship went through the LLM merge, the stored
\* item has the id and name (for a node: the name written just before the
\* call), the source and target (for a relationship) it had before the call.
C12_IdentityFieldsSurviveMerge ==
    /\ (KnownNode /\ stub.should_merge) =>
          LET stored == ProcessNode(MergerState, NextNode, Wiki, Llm).master_nodes_map[KnownId]
              before == merger.master_nodes_map[KnownId]
          IN  /\ stored["id"] = before["id"]
              /\ stored["name"] = MergedNames(NextNode, before, "", PrimaryLang(NextNode))
    /\ (KnownRel /\ stub.should_merge) =>
          LET stored == ProcessRel(MergerState, NextRel, Llm).master_rels_map[ResolvedKey]
              before == merger.master_rels_map[ResolvedKey]
          IN  /\ stored["source"] = before["source"]
              /\ stored["target"] = before["target"]

-----------------------------------------------------------------------------
(* GraphMerger._merge_and_update_names on its own: one call, on a fragment  *)
(* node named in up to two languages and the node it is merged into        *)

MaxNames == 2

\* the name lists of a fragment node: the model may repeat a name
NewNameLists == UNION {[1..k -> {"A", "B", "a"}] : k \in 0..MaxNames}

\* the name lists of a stored node: canonical name first, no name twice
StoredNameLists == {l \in NewNameLists : l # <<>> /\ Cardinality(Range(l)) = Len(l)}

NoNames == <<"-">>

\* a name object out of a zh-cn list and an en list, either of them missing
NameObj(zh, en) ==
    [lang \in {l \in {"zh-cn", "en"} : (IF l = "en" THEN en ELSE zh) # NoNames}
        |-> IF lang = "en" THEN en ELSE zh]

NamesInit ==
    /\ pc = "n_call"
    /\ client = IdleClient
    /\ pass = 1
    /\ nodes = <<>>
    /\ relationships = <<>>
    /\ first_graph = NoGraph
    /\ master_graph = NoGraph
    /\ false_relations_cache = EmptyDict
    /\ link_cache = EmptyDict
    /\ list_file = EmptyList
    /\ stub = PlainStub
    /\ data_files = <<>>
    /\ processed_files = {}
    /\ \E zh \in NewNameLists \ {<<>>}, en \in {NoNames, <<>>, <<"B">>, <<"a", "A">>},
          old_zh \in {NoNames, <<"a">>, <<"B", "a">>, <<"a", "B">>},
          old_en \in {NoNames, <<"A">>, <<"B", "a">>},
          canonical_name_override \in {"", "A", "a"}, known \in {EmptyDict, [a |-> "Q2"]} :
          /\ old_zh \in StoredNameLists \cup {NoNames}
          /\ old_en \in StoredNameLists \cup {NoNames}
          /\ limiter = IdleLimiter
          /\ merger = [new_node |-> [name |-> NameObj(zh, en)],
                       existing_node |-> IF old_zh = NoNames /\ old_en = NoNames THEN NoNode
                                         ELSE [id |-> "Q1", name |-> NameObj(old_zh, old_en)],
                       canonical_name_override |-> canonical_name_override,
                       primary_lang |-> "zh-cn",
                       name_to_qcode_map |-> known,
                       merged_name_obj |-> EmptyDict]

\* final_name_obj = self._merge_and_update_names(new_node, 'Q1', ...)
MergeAndUpdateNames ==
    /\ pc = "n_call"
    /\ LET merged_name_obj == MergedNames(merger.new_node, merger.existing_node,
                                          merger.canonical_name_override, merger.primary_lang)
       IN  merger' = [merger EXCEPT
                        !.merged_name_obj = merged_name_obj,
                        !.name_to_qcode_map = RegisterNames(@, merged_name_obj, "Q1")]
    /\ pc' = "n_done"
    /\ UNCHANGED <<master_graph, list_file, link_cache, stub, data_files, processed_files>>
    /\ UNCHANGED cleaner_vars
    /\ UNCHANGED client
    /\ UNCHANGED limiter

NamesNext == MergeAndUpdateNames

NamesSpec == NamesInit /\ [][NamesNext]_vars

\* the names a node has in a language
NamesIn(node, lang) == IF node = NoNode THEN <<>> ELSE Get(node["name"], lang, <<>>)

\* the canonical name by priority: the redirect override for the primary
\* language, else the stored node's first name, else the fragment node's
CanonicalByPriority(lang) ==
    IF lang = merger.primary_lang /\ merger.canonical_name_override # ""
    THEN merger.canonical_name_override
    ELSE IF NamesIn(merger.existing_node, lang) # <<>> THEN NamesIn(merger.existing_node, lang)[1]
    ELSE NamesIn(merger.new_node, lang)[1]

-----------------------------------------------------------------------------
(* The temp-ID upgrade (Maintainer step 8) *)

\* the Q-code get_qcode finds for the name behind a temporary id, "" for none
QcodeFor(id) == get_qcode(OriginalName(id), FetchQcode(stub.fetch)).qcode

\* the temporary ids of the node list that step 8 can upgrade
Upgradable == {id \in NodeIds(nodes) \cap TempIds : QcodeFor(id) # ""}

\* the id an endpoint has after the upgrade
Upgraded(id) == IF id \in Upgradable THEN QcodeFor(id) ELSE id

\* C14: step 8 leaves no node under a temporary id whose name has a Q-code, a
\* node with that Q-code exists, every relationship endpoint that was such a
\* temporary id is the Q-code, and every other node and relationship field is
\* what it was.
C14_TemporaryIdsUpgraded ==
    pc = "step8" =>
        LET out == _resolve_temporary_nodes(nodes, relationships, list_file,
                       FetchQcode(stub.fetch))
            involved == Upgradable \cup {QcodeFor(id) : id \in Upgradable}
        IN  /\ \A id \in Upgradable :
                   /\ id \notin NodeIds(out.nodes)
                   /\ QcodeFor(id) \in NodeIds(out.nodes)
            /\ Len(out.relationships) = Len(relationships)
            /\ \A i \in 1..Len(relationships) :
                   out.relationships[i] =
                       [relationships[i] EXCEPT
                           !["source"] = Upgraded(relationships[i]["source"]),
                           !["target"] = Upgraded(relationships[i]["target"])]
            /\ SelectSeq(out.nodes, LAMBDA n : n["id"] \notin involved)
                   = SelectSeq(nodes, LAMBDA n : n["id"] \notin involved)

\* C14's case: step 8 has run, the temporary node is gone, the node has the
\* Q-code of its name and a relationship ends at that Q-code.
C14_NodeUpgradedWithRelationship ==
    /\ pc = "save"
    /\ stub.fetch = "Q3"
    /\ "Q3" \in NodeIds(nodes)
    /\ NodeIds(nodes) \cap TempIds = {}
    /\ \E i \in 1..Len(relationships) :
           relationships[i]["source"] = "Q3" \/ relationships[i]["target"] = "Q3"

-----------------------------------------------------------------------------
(* The name refresh (Maintainer step 1) *)

\* the statuses the API returned for the languages queried for a Q-code
StatusesOf(q) ==
    {TitleByQcode(stub.titles)[<<q, lang>>].status :
        lang \in {"zh", "en"} \cup
                 {ApiLang(l) : l \in UNION {DOMAIN master_graph.nodes[i]["name"] :
                                   i \in {j \in 1..Len(master_graph.nodes) :
                                              master_graph.nodes[j]["id"] = q}}}}

\* C15: step 1 removes a Q-code node, and every relationship that has it as
\* source or target, exactly when the statuses of the languages queried for it
\* hold neither OK nor ERROR.
C15_UnvalidatedQcodesRemoved ==
    pc = "step2" =>
        /\ \A q \in NodeIds(master_graph.nodes) \cap QCodes :
               q \in NodeIds(nodes) <=> StatusesOf(q) \cap {"OK", "ERROR"} # {}
        /\ \A i \in 1..Len(relationships) :
               /\ relationships[i]["source"] \in NodeIds(master_graph.nodes) \cap QCodes
                      => StatusesOf(relationships[i]["source"]) \cap {"OK", "ERROR"} # {}
               /\ relationships[i]["target"] \in NodeIds(master_graph.nodes) \cap QCodes
                      => StatusesOf(relationships[i]["target"]) \cap {"OK", "ERROR"} # {}

\* C15's case: step 1 has removed a node no language validated together with
\* a relationship of it, and has kept a node whose only answer of note was ERROR.
C15_NodeAndRelationshipRemoved ==
    /\ pc = "step2"
    /\ \E q \in NodeIds(master_graph.nodes) \cap QCodes :
           /\ q \notin NodeIds(nodes)
           /\ Len(relationships) < Len(master_graph.relationships)
    /\ \E q \in NodeIds(nodes) \cap QCodes : StatusesOf(q) = {"ERROR", "NOT_FOUND"}

-----------------------------------------------------------------------------
(* The single-relation audit (Maintainer step 6) *)

\* the answers a relationship gets over the rounds of this run
AnswersFor(rel) ==
    {DecisionRounds(stub.decision)[round_num][CacheKey(rel)] : round_num \in 1..MAX_ROUNDS}

\* C16: the audit removes a relationship only if is_relation_deletable answered
\* true for it in some round; a sampled relationship that got a null answer in
\* every round is in the list it returns, and its key has the cache entry it
\* had before, or none.
C16_AuditDeletesOnlyOnTrue ==
    pc = "step6" =>
        \A lucky \in SUBSET {key \in DOMAIN false_relations_cache :
                                false_relations_cache[key] = "ramp"} :
        \A rels_to_check \in Samples(Candidates(relationships, false_relations_cache, lucky),
                                      REL_CLEAN_NUM) :
            LET out == _clean_individual_relationships(relationships, false_relations_cache,
                           rels_to_check, DecisionRounds(stub.decision))
                removed == {i \in rels_to_check : "TRUE" \in AnswersFor(relationships[i])}
            IN  /\ \E deleted \in SUBSET removed :
                       out.relationships =
                           [j \in 1..(Len(relationships) - Cardinality(deleted)) |->
                               relationships[Ascending(1..Len(relationships) \ deleted)[j]]]
                /\ \A i \in rels_to_check :
                       AnswersFor(relationships[i]) = {"NONE"} =>
                           /\ relationships[i] \in Range(out.relationships)
                           /\ CacheKey(relationships[i]) \in DOMAIN out.cache =>
                                  /\ CacheKey(relationships[i]) \in DOMAIN false_relations_cache
                                  /\ out.cache[CacheKey(relationships[i])]
                                         = false_relations_cache[CacheKey(relationships[i])]

\* C16's case: the audit has run with a model that answered nothing in the
\* first round; a relationship answered false later has its cache entry, and
\* one that was never answered is still in the list without a cache entry.
C16_UnansweredRelationshipKept ==
    /\ pc = "step7"
    /\ pass = 1
    /\ stub.decision = "retry"
    /\ <<"Q1", "Q2", "SPOUSE_OF">> \in DOMAIN false_relations_cache
    /\ <<"Q1", "Q2", "SPOUSE_OF">> \notin DOMAIN OldCache
           \/ false_relations_cache # OldCache
    /\ \E i \in 1..Len(relationships) :
           /\ relationships[i]["type"] = "CHILD_OF"
           /\ CacheKey(relationships[i]) \notin DOMAIN false_relations_cache

\* C31: the audit ends after at most MAX_ROUNDS rounds and returns the list,
\* also when every answer is null; a round asks about a relationship that was
\* sampled and got no answer in any earlier round, so a relationship with a
\* true or false answer is never asked about again; the list returned is the
\* input without the relationships answered true.
C31_AuditEndsWithinMaxRounds ==
    pc = "step6" =>
        \A lucky \in SUBSET {key \in DOMAIN false_relations_cache :
                                false_relations_cache[key] = "ramp"} :
        \A rels_to_check \in Samples(Candidates(relationships, false_relations_cache, lucky),
                                      REL_CLEAN_NUM) :
            LET decision == DecisionRounds(stub.decision)
                queries == AuditQueries(rels_to_check, 1, relationships, decision)
                out == _clean_individual_relationships(relationships, false_relations_cache,
                           rels_to_check, decision)
                Answered(i, round_num) ==
                    decision[round_num][CacheKey(relationships[i])] \in {"TRUE", "FALSE"}
            IN  /\ Len(queries) <= MAX_ROUNDS
                /\ \A round_num \in DOMAIN queries :
                       /\ queries[round_num] \subseteq rels_to_check
                       /\ \A i \in queries[round_num] :
                              \A earlier \in 1..round_num-1 :
                                  i \in queries[earlier] /\ ~Answered(i, earlier)
                /\ Len(out.relationships) <= Len(relationships)
                /\ Len(out.relationships) >=
                       Len(relationships)
                       - Cardinality({i \in rels_to_check : \E round_num \in DOMAIN queries :
                                         i \in queries[round_num] /\ Answered(i, round_num)})

\* the audit has run with a model that answered null every time: the sampled
\* relationships were asked about in each of the MAX_ROUNDS rounds and are all
\* still in the list
C31_EveryRoundUnanswered ==
    /\ pc = "step7"
    /\ stub.decision = "none"
    /\ relationships # <<>>
    /\ \E rels_to_check \in Samples(Candidates(relationships, false_relations_cache, {}),
                                    REL_CLEAN_NUM) :
          /\ rels_to_check # {}
          /\ Len(AuditQueries(rels_to_check, 1, relationships,
                              DecisionRounds(stub.decision))) = MAX_ROUNDS

-----------------------------------------------------------------------------
(* APIRateLimiter.limit under concurrent callers: one limiter, callers    *)
(* that each go through the wrapper once, and the monotonic clock.        *)
(* `limiter.admitted` keeps every timestamp ever appended to the window.  *)

MaxCallers == 3
MaxTime == 4
RpdLimit == 2

pipeline_vars == <<pc, nodes, relationships, master_graph, list_file,
                   false_relations_cache, link_cache, stub, pass, first_graph,
                   merger, data_files, processed_files>>

Callers == 1..MaxCallers

\* func.__name__ of the function each caller goes through
FuncName(t) ==
    CASE t = 1 -> "_should_trigger_merge_llm"
      [] t = 2 -> "is_relation_deletable"
      [] OTHER -> "_call_llm_for_merge"

\* what func can return
Returns(func_name) ==
    CASE func_name = "_should_trigger_merge_llm" -> {"True", "False"}
      [] func_name = "is_relation_deletable" -> {"True", "None"}
      [] OTHER -> {"{}"}

IdleCaller ==
    [pc |-> "idle", calls_left |-> 1, over_at_entry |-> FALSE, wake_at |-> 0,
     waited |-> FALSE, appended |-> FALSE, invoked |-> FALSE, incremented |-> FALSE,
     raised |-> FALSE, result |-> ""]

LimiterInit ==
    /\ pc = "l_run"
    /\ client = IdleClient
    /\ pass = 1
    /\ nodes = <<>>
    /\ relationships = <<>>
    /\ first_graph = NoGraph
    /\ master_graph = NoGraph
    /\ false_relations_cache = EmptyDict
    /\ link_cache = EmptyDict
    /\ list_file = EmptyList
    /\ stub = PlainStub
    /\ merger = IdleMerger
    /\ data_files = <<>>
    /\ processed_files = {}
    /\ \E max_requests \in {1, 2}, per_seconds \in {1, 2},
          quota \in {<<NoLimit, 0>>} \cup {<<RpdLimit, n>> : n \in 0..RpdLimit} :
          limiter = [max_requests |-> max_requests, per_seconds |-> per_seconds,
                     rpd_limit |-> quota[1], daily_count |-> quota[2],
                     loaded_count |-> quota[2], counter_file |-> quota[2],
                     write_failed |-> FALSE,
                     requests |-> <<>>, lock |-> 0, clock |-> 0, admitted |-> <<>>,
                     callers |-> [t \in Callers |-> IdleCaller]]

\* wrapper(*args, **kwargs) is called
EnterLimit(t) ==
    /\ pc = "l_run"
    /\ limiter.callers[t].pc = "idle"
    /\ limiter.callers[t].calls_left > 0
    /\ limiter' = [limiter EXCEPT !.callers[t] =
                      [IdleCaller EXCEPT !.pc = "check",
                                         !.calls_left = limiter.callers[t].calls_left - 1,
                                         !.over_at_entry =
                                             /\ limiter.rpd_limit # NoLimit
                                             /\ limiter.daily_count >= limiter.rpd_limit]]
    /\ UNCHANGED pipeline_vars
    /\ UNCHANGED client

\* _check_and_wait, lines 82-94: take the lock, check the quota, read the clock,
\* prune the window and work out the sleep; lines 122-132 when the quota is out
CheckAndWait(t) ==
    /\ pc = "l_run"
    /\ limiter.callers[t].pc = "check"
    /\ limiter.lock = 0
    /\ IF QuotaExhausted(limiter)
       THEN limiter' = [limiter EXCEPT !.callers[t].pc = "idle",
                                       !.callers[t].result = QuotaDefault(FuncName(t))]
       ELSE LET now == limiter.clock
                requests == Pruned(limiter.requests, now, limiter.per_seconds)
                wait_time == WaitTime(requests, now, limiter.max_requests,
                                      limiter.per_seconds)
            IN  limiter' = [limiter EXCEPT !.lock = t,
                                           !.requests = requests,
                                           !.callers[t].pc = "append",
                                           !.callers[t].waited = wait_time > 0,
                                           !.callers[t].wake_at = now + wait_time]
    /\ UNCHANGED pipeline_vars
    /\ UNCHANGED client

\* line 96, after time.sleep has returned: append the clock, leave the lock
AppendRequest(t) ==
    /\ pc = "l_run"
    /\ limiter.callers[t].pc = "append"
    /\ limiter.clock >= limiter.callers[t].wake_at
    /\ limiter' = [limiter EXCEPT !.requests = Append(@, limiter.clock),
                                  !.admitted = Append(@, limiter.clock),
                                  !.lock = 0,
                                  !.callers[t].pc = "call",
                                  !.callers[t].wake_at = 0,
                                  !.callers[t].appended = TRUE]
    /\ UNCHANGED pipeline_vars
    /\ UNCHANGED client

\* line 113: result = func(*args, **kwargs); an exception of func leaves the
\* wrapper at once (lines 133-134)
CallFunc(t) ==
    /\ pc = "l_run"
    /\ limiter.callers[t].pc = "call"
    /\ \/ \E result \in Returns(FuncName(t)) :
             limiter' = [limiter EXCEPT !.callers[t].pc = "count",
                                        !.callers[t].invoked = TRUE,
                                        !.callers[t].result = result]
       \/ limiter' = [limiter EXCEPT !.callers[t].pc = "idle",
                                     !.callers[t].invoked = TRUE,
                                     !.callers[t].raised = TRUE]
    /\ UNCHANGED pipeline_vars
    /\ UNCHANGED client

\* lines 114-121: count the call, always for a result, one time in four for None
CountCall(t) ==
    /\ pc = "l_run"
    /\ limiter.callers[t].pc = "count"
    /\ \E counted \in BOOLEAN, written \in BOOLEAN :
          /\ limiter.callers[t].result # "None" => counted
          /\ IF counted /\ limiter.rpd_limit # NoLimit
             THEN /\ limiter.lock = 0
                  /\ limiter' = [_save_daily_counter(increment_and_save(limiter), written)
                                    EXCEPT !.callers[t].pc = "idle",
                                           !.callers[t].incremented = TRUE]
             ELSE limiter' = [limiter EXCEPT !.callers[t].pc = "idle"]
    /\ UNCHANGED pipeline_vars
    /\ UNCHANGED client

\* time.monotonic() moves on
Tick ==
    /\ pc = "l_run"
    /\ limiter.clock < MaxTime
    /\ limiter' = [limiter EXCEPT !.clock = @ + 1]
    /\ UNCHANGED pipeline_vars
    /\ UNCHANGED client

LimiterNext ==
    \/ \E t \in Callers : EnterLimit(t)
    \/ \E t \in Callers : CheckAndWait(t)
    \/ \E t \in Callers : AppendRequest(t)
    \/ \E t \in Callers : CallFunc(t)
    \/ \E t \in Callers : CountCall(t)
    \/ Tick

LimiterSpec == LimiterInit /\ [][LimiterNext]_vars

\* the timestamps appended in the window of per_seconds that ends at time t
AdmittedIn(t) ==
    {i \in DOMAIN limiter.admitted :
        /\ limiter.admitted[i] > t - limiter.per_seconds
        /\ limiter.admitted[i] <= t}

\* C17: under any interleaving of the callers of limit(f), no window of
\* per_seconds holds more than max_requests of the timestamps appended to the
\* RPM window (a window ends at some time t and starts per_seconds earlier, an
\* admission exactly per_seconds old having left it, as in the code's pruning)
C17_WindowNeverOverfull ==
    pc = "l_run" =>
        \A t \in 0..MaxTime : Cardinality(AdmittedIn(t)) <= limiter.max_requests

\* a caller found the window full, slept and was admitted, and a window is full
C17_CallerWaitedAndAdmitted ==
    /\ pc = "l_run"
    /\ \E c \in Callers : limiter.callers[c].waited /\ limiter.callers[c].appended
    /\ \E t \in 0..MaxTime : Cardinality(AdmittedIn(t)) = limiter.max_requests

\* C18: a call that enters limit(f) when an RPD limit is configured and
\* daily_count >= rpd_limit does not invoke f, appends no timestamp to the RPM
\* window, does not change daily_count, and returns the wrapper's default for
\* f's name ("True", "[]" or "None") instead of raising
C18_ExhaustedQuotaSkipsCall ==
    pc = "l_run" =>
        \A t \in Callers :
            limiter.callers[t].over_at_entry =>
                /\ limiter.callers[t].pc \in {"check", "idle"}
                /\ ~limiter.callers[t].invoked
                /\ ~limiter.callers[t].appended
                /\ ~limiter.callers[t].incremented
                /\ limiter.callers[t].pc = "idle" =>
                       limiter.callers[t].result = QuotaDefault(FuncName(t))

\* a caller that entered with the quota used up has returned the default
C18_RejectedCallReturned ==
    /\ pc = "l_run"
    /\ limiter.rpd_limit = RpdLimit
    /\ \E t \in Callers :
          /\ limiter.callers[t].over_at_entry
          /\ limiter.callers[t].pc = "idle"
          /\ limiter.callers[t].result = "None"
    /\ \E t \in Callers :
          /\ limiter.callers[t].over_at_entry
          /\ limiter.callers[t].pc = "idle"
          /\ limiter.callers[t].result = "True"
    /\ \E t \in Callers : limiter.callers[t].incremented

-----------------------------------------------------------------------------
(* The Merger when a daily quota is used up *)

\* C19: with the daily quota of the merge-check model used up, the merge
\* check comes out as "keep existing": the item the fragment's next node or
\* relationship meets is not sent to the merge model (no call is counted on the
\* merge model's limiter) and stays as it was, but for the names merged before
\* the check.
C19_ExhaustedCheckKeepsExisting ==
    /\ (KnownNode /\ QuotaExhausted(limiter.gemma)) =>
          LET out == ProcessNode(MergerState, NextNode, Wiki, Llm)
              before == merger.master_nodes_map[KnownId]
          IN  /\ out.limiter.gemini_flash = limiter.gemini_flash
              /\ out.master_nodes_map[KnownId] =
                     Put(before, "name", MergedNames(NextNode, before, "", PrimaryLang(NextNode)))
    /\ (KnownRel /\ QuotaExhausted(limiter.gemma)) =>
          LET out == ProcessRel(MergerState, NextRel, Llm)
          IN  /\ out.limiter.gemini_flash = limiter.gemini_flash
              /\ out.master_rels_map[ResolvedKey] = merger.master_rels_map[ResolvedKey]

\* the merge call on the item the fragment's next node or relationship meets
\* fails: the model raises, answers nothing or no JSON, or the quota is used up
MergeFails(item_type) ==
    \/ Llm.merged[item_type] \in MergeFailures
    \/ QuotaExhausted(limiter.gemini_flash)

\* C20: whenever the merge call fails, by an exception of the model, an empty
\* response, a response that is not JSON, or a rejection by the rate limiter
\* for a used-up daily quota, its caller receives the existing item as it is.
C20_FailedMergeReturnsExisting ==
    /\ (KnownNode /\ MergeFails("node")) =>
          LET existing_node == Put(merger.master_nodes_map[KnownId], "name",
                                   MergedNames(NextNode, merger.master_nodes_map[KnownId],
                                               "", PrimaryLang(NextNode)))
          IN  LimitedMerge(existing_node, Update(Llm, limiter), "node") = existing_node
    /\ (KnownRel /\ MergeFails("rel")) =>
          LimitedMerge(merger.master_rels_map[ResolvedKey], Update(Llm, limiter), "rel")
              = merger.master_rels_map[ResolvedKey]

-----------------------------------------------------------------------------
(* clients.WikipediaClient: get_qcode and check_link_status called a few    *)
(* times on one client, in any order, against a fixed wiki.                *)

MaxClientCalls == 2

Langs == {"zh", "en"}

\* the answers of action=query&prop=pageprops for a title: the request fails,
\* the answer has no "pages", or it has a page object
FailedRequest == [kind |-> "error"]
NoPages == [kind |-> "nopages"]
MissingPage == [kind |-> "page", missing |-> TRUE, pageprops |-> {}, wikibase_item |-> "",
                title |-> ""]
Page(title, wikibase_item, pageprops) ==
    [kind |-> "page", missing |-> FALSE, pageprops |-> pageprops,
     wikibase_item |-> wikibase_item, title |-> title]

\* the wikis of the model
PageTable(variant) ==
    [title \in Titles |->
        CASE variant = "plain" /\ title \in {"A", "At"} -> Page("A", "Q1", {"wikibase_item"})
          [] variant = "plain" /\ title = "B" -> Page("B", "Q2", {"wikibase_item"})
          [] variant = "plain" /\ title = "a" -> MissingPage
          [] variant = "disambig" /\ title = "A" ->
                 Page("A", "Q3", {"wikibase_item", "disambiguation"})
          [] variant = "disambig" /\ title = "At" -> Page("At", "Q1", {"wikibase_item"})
          [] variant = "disambig" /\ title = "B" ->
                 Page("B", "Q2", {"wikibase_item", "disambiguation"})
          [] variant = "disambig" /\ title = "a" -> FailedRequest
          [] variant = "redirect" /\ title = "a" -> Page("B", "Q3", {"wikibase_item"})
          [] variant = "redirect" /\ title = "At" -> Page("At", "Q1", {"wikibase_item"})
          [] variant = "redirect" /\ title = "B" -> Page("B", "", {})
          [] OTHER -> NoPages]

\* WikipediaClient._fetch_qcode_from_api on the answer: (qcode, final_title)
_fetch_qcode_from_api(answer) ==
    IF answer.kind # "page" \/ answer.missing \/ "disambiguation" \in answer.pageprops
    THEN [qcode |-> "", title |-> ""]
    ELSE [qcode |-> answer.wikibase_item, title |-> answer.title]

\* WikipediaClient.get_qcode, lines 244-257 and 289: the title is tried, then
\* for zh its traditional spelling; what is returned and how many requests
QcodeLookup(article_title, lang, pages) ==
    LET first == _fetch_qcode_from_api(pages[article_title])
        retry == first.qcode = "" /\ lang = "zh"
        traditional_title == IF retry THEN s2t(article_title) ELSE ""
        refetch == retry /\ traditional_title # article_title
        found == IF refetch THEN _fetch_qcode_from_api(pages[traditional_title]) ELSE first
        success == found.qcode # "" /\ found.title # ""
    IN  [qcode |-> IF success THEN found.qcode ELSE "",
         title |-> IF success THEN found.title ELSE "",
         traditional_title |-> traditional_title,
         requests |-> IF refetch THEN 2 ELSE 1]

\* lines 268-285: the titles met are added to the Q-code's cache entry
QcodeCacheAfter(qcode_cache, article_title, res) ==
    LET titles_in_cache == Range(Get(qcode_cache, res.qcode, <<>>))
        titles_to_add == {article_title, res.title, res.traditional_title} \ {""}
    IN  IF res.qcode = "" \/ titles_to_add \subseteq titles_in_cache THEN qcode_cache
        ELSE Put(qcode_cache, res.qcode, sorted(titles_in_cache \cup titles_to_add))

\* a client that never rewrites LIST.md
ListNeverUpdated(lines, article_title, lang, res) == lines

\* lines 262-265: LIST.md is rewritten when the final title is another one
ListAfterQcode(lines, article_title, lang, res) ==
    IF res.qcode # "" /\ res.title # article_title
    THEN update_title_in_list(lines, lang, article_title, res.title)
    ELSE lines

\* the names check_link_status is asked about, and the link texts of redirects
LinkTitles == {"A", "At", "a", "A b"}

\* match.group(1).strip().split('#')[0]
RedirectTarget(link_text) == IF link_text = "A#s" THEN "A" ELSE link_text

\* str.replace('_', ' ') and str.lower() on the strings of the model
ReplaceUnderscores(text) == IF text = "a_B" THEN "a B" ELSE text
Lower(text) ==
    CASE text = "A" -> "a"
      [] text = "At" -> "at"
      [] text = "B" -> "b"
      [] text = "A b" -> "a b"
      [] text = "a B" -> "a b"
      [] OTHER -> text
Normalized(text) == Lower(ReplaceUnderscores(text))

\* what index.php?title=...&action=raw answers
NotFound == [kind |-> "404"]
Redirect(link_text) == [kind |-> "redirect", link_text |-> link_text]
Content(kind) == [kind |-> kind]

RawTable(variant) ==
    [title \in LinkTitles |->
        CASE variant \in {"plain", "redirect"} /\ title = "A" -> Redirect("At")
          [] variant \in {"plain", "redirect"} /\ title = "At" -> Redirect("A")
          [] variant = "plain" /\ title = "a" -> Redirect("B")
          [] variant = "redirect" /\ title = "a" -> Redirect("A#s")
          [] variant \in {"plain", "redirect"} /\ title = "A b" -> Redirect("a_B")
          [] variant = "disambig" /\ title = "A" -> Content("disambig")
          [] variant = "disambig" /\ title = "At" -> NotFound
          [] variant = "disambig" /\ title = "a" -> FailedRequest
          [] variant = "disambig" /\ title = "A b" -> Content("text")
          [] OTHER -> Content("empty")]

\* check_generic_url on Baidu Baike and on China Digital Space
ProbeTable(variant) ==
    [title \in LinkTitles |->
        [baidu |-> variant = "disambig" /\ title = "At",
         cdt |-> variant = "disambig" /\ title = "a"]]

\* WikipediaClient._check_wiki_status_api: (status, detail), "" for None
_check_wiki_status_api(node_id, lang, response) ==
    CASE response.kind = "404" -> [status |-> "NO_PAGE", detail |-> ""]
      [] response.kind = "error" -> [status |-> "ERROR", detail |-> "error"]
      [] response.kind = "empty" -> [status |-> "NO_PAGE", detail |-> ""]
      [] response.kind = "malformed" -> [status |-> "ERROR", detail |-> "Malformed redirect"]
      [] response.kind = "redirect" ->
             LET redirect_target == RedirectTarget(response.link_text)
                 norm_simplified_target == Normalized(t2s(redirect_target))
                 norm_node_id == Normalized(node_id)
             IN  IF lang = "zh" /\ norm_simplified_target = norm_node_id
                 THEN [status |-> "SIMP_TRAD_REDIRECT", detail |-> redirect_target]
                 ELSE [status |-> "REDIRECT", detail |-> redirect_target]
      [] response.kind = "disambig" -> [status |-> "DISAMBIG", detail |-> ""]
      [] OTHER -> [status |-> "OK", detail |-> ""]

\* check_link_status, lines 368-374: the status after the fallback sources
LinkAnswer(node_id, lang, response, probe) ==
    LET api == _check_wiki_status_api(node_id, lang, response)
    IN  IF api.status \in {"NO_PAGE", "ERROR"} /\ lang = "zh"
        THEN (IF probe.baidu THEN [api EXCEPT !.status = "BAIDU"]
              ELSE IF probe.cdt THEN [api EXCEPT !.status = "CDT"]
              ELSE api)
        ELSE api

\* the requests one call of check_link_status makes
LinkRequests(cache, node_id, lang, response, probe) ==
    IF node_id \in DOMAIN cache THEN 0
    ELSE IF _check_wiki_status_api(node_id, lang, response).status \in {"NO_PAGE", "ERROR"}
            /\ lang = "zh"
    THEN (IF probe.baidu THEN 2 ELSE 3)
    ELSE 1

\* config.py: the freshness policy of the list processor
PROB_START_DAY == 7
PROB_END_DAY == 30
PROB_START_VALUE == [num |-> 1, den |-> 12]
PROB_END_VALUE == [num |-> 9, den |-> 10]

\* the age of the newest local fragment in half days (None: no fragment),
\* what get_latest_revision_time finds relative to that fragment, and the
\* draws of random.random() in thousandths
LocalAges == {0, 6, 14, 15, 16, 17, 40, 60, 61, 62}
RevisionAnswers == {"none", "unchanged", "changed"}
RandomDraws == {0, 100, 500, 999}

\* timedelta.days: whole days, rounded down
age_in_days(half_days) == half_days \div 2

\* random.random() >= PROB_START_VALUE + (PROB_END_VALUE - PROB_START_VALUE) * ratio,
\* in exact arithmetic
SkippedByChance(days, draw) ==
    LET span == PROB_END_DAY - PROB_START_DAY
        den == PROB_START_VALUE.den * PROB_END_VALUE.den * span
        num == PROB_START_VALUE.num * PROB_END_VALUE.den * span
               + (PROB_END_VALUE.num * PROB_START_VALUE.den
                  - PROB_START_VALUE.num * PROB_END_VALUE.den) * (days - PROB_START_DAY)
    IN  draw * den >= num * 1000

\* a processor that asks for the revision time of every item that has a fragment
AskWikiFirst(last_local_time, revision, draw) ==
    IF last_local_time = None THEN [result |-> TRUE, requests |-> 0]
    ELSE LET days == age_in_days(last_local_time.age)
         IN  IF revision = "unchanged" THEN [result |-> FALSE, requests |-> 1]
             ELSE IF days <= PROB_START_DAY THEN [result |-> FALSE, requests |-> 1]
             ELSE IF days <= PROB_END_DAY /\ SkippedByChance(days, draw)
             THEN [result |-> FALSE, requests |-> 1]
             ELSE [result |-> TRUE, requests |-> 1]

\* ListProcessor._should_process_item: the answer and the wiki requests made
_should_process_item(last_local_time, revision, draw) ==
    IF last_local_time = None THEN [result |-> TRUE, requests |-> 0]
    ELSE LET days == age_in_days(last_local_time.age)
         IN  IF days <= PROB_START_DAY THEN [result |-> FALSE, requests |-> 0]
             ELSE IF revision = "unchanged" THEN [result |-> FALSE, requests |-> 1]
             ELSE IF PROB_START_DAY < days /\ days <= PROB_END_DAY
                     /\ SkippedByChance(days, draw)
             THEN [result |-> FALSE, requests |-> 1]
             ELSE [result |-> TRUE, requests |-> 1]

ClientInit ==
    /\ pc = "c_call"
    /\ pass = 1
    /\ nodes = <<>>
    /\ relationships = <<>>
    /\ first_graph = NoGraph
    /\ master_graph = NoGraph
    /\ false_relations_cache = EmptyDict
    /\ stub = PlainStub
    /\ merger = IdleMerger
    /\ limiter = IdleLimiter
    /\ data_files = <<>>
    /\ processed_files = {}
    /\ link_cache \in {EmptyDict, AgedLinks}
    /\ list_file \in {EmptyList, PersonList, LooseList, NewFirstList}
    /\ \E variant \in {"plain", "disambig", "redirect"},
          qcode_cache \in {EmptyDict, [Q1 |-> <<"A">>]} :
          client = [pages |-> PageTable(variant), raw |-> RawTable(variant),
                    probes |-> ProbeTable(variant), qcode_cache |-> qcode_cache,
                    qcode_cache_updated |-> FALSE, requests |-> 0, calls |-> 0,
                    last |-> [op |-> "none"]]

\* one call of get_qcode(article_title, lang)
GetQcode ==
    /\ pc = "c_call"
    /\ client.calls < MaxClientCalls
    /\ \E article_title \in Titles, lang \in Langs :
          LET res == QcodeLookup(article_title, lang, client.pages)
              cache == QcodeCacheAfter(client.qcode_cache, article_title, res)
          IN  /\ list_file' = ListAfterQcode(list_file, article_title, lang, res)
              /\ client' = [client EXCEPT
                               !.qcode_cache = cache,
                               !.qcode_cache_updated = @ \/ cache # client.qcode_cache,
                               !.requests = @ + res.requests,
                               !.calls = @ + 1,
                               !.last = [op |-> "get_qcode", title |-> article_title,
                                         lang |-> lang, qcode |-> res.qcode,
                                         final_title |-> res.title,
                                         list_before |-> list_file,
                                         cache_before |-> client.qcode_cache]]
    /\ UNCHANGED <<pc, nodes, relationships, master_graph, false_relations_cache, link_cache,
                   stub, pass, first_graph, merger, data_files, processed_files, limiter>>

\* one call of check_link_status(node_id, lang)
CheckLinkStatus ==
    /\ pc = "c_call"
    /\ client.calls < MaxClientCalls
    /\ \E node_id \in LinkTitles, lang \in Langs :
          LET answers == [name \in LinkTitles |->
                             LinkAnswer(name, lang, client.raw[name], client.probes[name])]
              res == check_link_status(link_cache, node_id, answers)
              requests == LinkRequests(link_cache, node_id, lang, client.raw[node_id],
                                       client.probes[node_id])
          IN  /\ link_cache' = res.cache
              /\ client' = [client EXCEPT
                               !.requests = @ + requests,
                               !.calls = @ + 1,
                               !.last = [op |-> "check_link_status", title |-> node_id,
                                         lang |-> lang, status |-> res.status,
                                         detail |-> res.detail, requests |-> requests,
                                         cache_before |-> link_cache]]
    /\ UNCHANGED <<pc, nodes, relationships, master_graph, list_file, false_relations_cache,
                   stub, pass, first_graph, merger, data_files, processed_files, limiter>>

\* one call of ListProcessor._should_process_item
ShouldProcessItem ==
    /\ pc = "c_call"
    /\ client.calls < MaxClientCalls
    /\ \E last_local_time \in {[age |-> half_days] : half_days \in LocalAges} \cup {None},
          revision \in RevisionAnswers,
          draw \in RandomDraws :
          LET res == _should_process_item(last_local_time, revision, draw)
          IN  client' = [client EXCEPT
                           !.requests = @ + res.requests,
                           !.calls = @ + 1,
                           !.last = [op |-> "should_process",
                                     last_local_time |-> last_local_time,
                                     result |-> res.result, requests |-> res.requests]]
    /\ UNCHANGED <<pc, nodes, relationships, master_graph, list_file, false_relations_cache,
                   link_cache, stub, pass, first_graph, merger, data_files, processed_files,
                   limiter>>

\* one call of add_title_to_list
AddTitle ==
    /\ pc = "c_call"
    /\ client.calls < MaxClientCalls
    /\ \E title \in Titles, lang \in Langs :
          /\ list_file' = add_title_to_list(list_file, lang, title)
          /\ client' = [client EXCEPT
                           !.calls = @ + 1,
                           !.last = [op |-> "add_title", title |-> title, lang |-> lang,
                                     list_before |-> list_file]]
    /\ UNCHANGED <<pc, nodes, relationships, master_graph, false_relations_cache, link_cache,
                   stub, pass, first_graph, merger, data_files, processed_files, limiter>>

ClientNext ==
    \/ AddTitle
    \/ GetQcode
    \/ CheckLinkStatus
    \/ ShouldProcessItem

ClientSpec == ClientInit /\ [][ClientNext]_vars

\* C21: whenever the page object the API answers for the requested title has
\* the disambiguation property, get_qcode returns (None, None), adds nothing
\* to the Q-code cache and leaves LIST.md as it is.
C21_DisambiguationYieldsNothing ==
    (pc = "c_call" /\ client.last.op = "get_qcode"
     /\ client.pages[client.last.title].kind = "page"
     /\ "disambiguation" \in client.pages[client.last.title].pageprops)
    => /\ client.last.qcode = ""
       /\ client.last.final_title = ""
       /\ client.qcode_cache = client.last.cache_before
       /\ list_file = client.last.list_before

\* C22: get_qcode rewrites LIST.md with update_title_in_list(requested, final)
\* exactly when it returns a Q-code with a final title other than the requested
\* one; in every other case LIST.md is left as it was.
C22_ListUpdatedOnlyOnRedirect ==
    (pc = "c_call" /\ client.last.op = "get_qcode")
    => list_file =
           IF client.last.qcode # "" /\ client.last.final_title # client.last.title
           THEN update_title_in_list(client.last.list_before, client.last.lang,
                                     client.last.title, client.last.final_title)
           ELSE client.last.list_before

\* a call followed a redirect and the entry of LIST.md was renamed
C22_RedirectRenamedEntry ==
    /\ pc = "c_call"
    /\ client.last.op = "get_qcode"
    /\ client.last.title = "a"
    /\ client.last.final_title = "B"
    /\ list_file # client.last.list_before

\* C23: the link-status cache never holds a NO_PAGE or ERROR entry; every
\* other status a call returns is in the cache under the queried name, with a
\* timestamp when the call stored it; a call for a cached name returns the
\* cached status and makes no request.
C23_NoTerminalStatusCached ==
    pc = "c_call" =>
        /\ \A name \in DOMAIN link_cache : link_cache[name].status \notin {"NO_PAGE", "ERROR"}
        /\ client.last.op = "check_link_status" =>
              /\ client.last.status \notin {"NO_PAGE", "ERROR"} =>
                    /\ client.last.title \in DOMAIN link_cache
                    /\ link_cache[client.last.title].status = client.last.status
              /\ (client.last.status \notin {"NO_PAGE", "ERROR"}
                  /\ client.last.title \notin DOMAIN client.last.cache_before) =>
                    link_cache[client.last.title].age = "recent"
              /\ client.last.title \in DOMAIN client.last.cache_before =>
                    /\ client.last.status = client.last.cache_before[client.last.title].status
                    /\ client.last.requests = 0
                    /\ link_cache = client.last.cache_before

\* one name was looked up and cached, another was not found and left out, and
\* the second call of the first was answered from the cache
C23_CachedAnswerReused ==
    /\ pc = "c_call"
    /\ client.last.op = "check_link_status"
    /\ client.last.title \in DOMAIN client.last.cache_before
    /\ client.last.cache_before # AgedLinks
    /\ client.last.requests = 0
    /\ client.requests > 0

\* C24: for a zh page whose raw content redirects to T, check_link_status
\* answers SIMP_TRAD_REDIRECT exactly when T and the name are equal once both
\* are converted to simplified Chinese and normalised (underscores, case), and
\* REDIRECT otherwise; the detail is T.
C24_SimpTradRedirectBothSimplified ==
    (pc = "c_call" /\ client.last.op = "check_link_status" /\ client.last.lang = "zh"
     /\ client.last.title \notin DOMAIN client.last.cache_before
     /\ client.raw[client.last.title].kind = "redirect")
    => LET T == RedirectTarget(client.raw[client.last.title].link_text)
       IN  /\ client.last.detail = T
           /\ client.last.status =
                  IF Normalized(t2s(T)) = Normalized(t2s(client.last.title))
                  THEN "SIMP_TRAD_REDIRECT" ELSE "REDIRECT"

\* C25: _should_process_item answers False and asks the wiki nothing when the
\* newest local fragment is at most PROB_START_DAY days old, answers True and
\* asks nothing when there is no local fragment, and asks for the revision
\* time at most once in every other case.
C25_FreshItemsCostNoRequest ==
    (pc = "c_call" /\ client.last.op = "should_process") =>
        /\ client.last.last_local_time = None =>
              (client.last.result /\ client.last.requests = 0)
        /\ (client.last.last_local_time # None
            /\ client.last.last_local_time.age <= 2 * PROB_START_DAY) =>
              (~client.last.result /\ client.last.requests = 0)
        /\ client.last.requests <= 1

\* an item exactly PROB_START_DAY days old was skipped without a request after
\* an older item had cost one request
C25_FreshItemSkippedAfterStaleOne ==
    /\ pc = "c_call"
    /\ client.last.op = "should_process"
    /\ client.last.last_local_time = [age |-> 2 * PROB_START_DAY]
    /\ ~client.last.result
    /\ client.last.requests = 0
    /\ client.requests = 1
    /\ client.calls = 2

-----------------------------------------------------------------------------
(* A run whose write of the master graph fails *)

\* C26: when the master graph cannot be written, the run ends there: the
\* processed-files log gets none of this run's files and the caches are not
\* saved.
C26_FailedWriteEndsRun ==
    pc = "m_unsaved" =>
        /\ Range(merger.files_processed_this_run) \cap processed_files = {}
        /\ ~Get(merger, "caches_saved", FALSE)

-----------------------------------------------------------------------------
(* Worker threads that change the watch list at the same time *)

MaxWorkers == 2
Workers == 1..MaxWorkers

\* the calls the workers make
AddOp(title) == [kind |-> "add", lang |-> "zh", title |-> title]
UpdateOp(old, new) == [kind |-> "update", lang |-> "zh", old |-> old, new |-> new]
ListOps == {AddOp("A"), AddOp("B"), UpdateOp("a", "A"), UpdateOp("B", "At")}

\* one operation on the lines of the file
ApplyOp(lines, op) ==
    IF op.kind = "add" THEN add_title_to_list(lines, op.lang, op.title)
    ELSE update_title_in_list(lines, op.lang, op.old, op.new)

list_frame == <<pc, nodes, relationships, master_graph, false_relations_cache, link_cache,
                stub, pass, first_graph, merger, data_files, processed_files, limiter>>

ListInit ==
    /\ pc = "w_run"
    /\ pass = 1
    /\ nodes = <<>>
    /\ relationships = <<>>
    /\ first_graph = NoGraph
    /\ master_graph = NoGraph
    /\ false_relations_cache = EmptyDict
    /\ stub = PlainStub
    /\ merger = IdleMerger
    /\ limiter = IdleLimiter
    /\ data_files = <<>>
    /\ processed_files = {}
    /\ link_cache = EmptyDict
    /\ list_file \in {EmptyList, PersonList, NewFirstList}
    /\ \E ops \in [Workers -> ListOps] :
          client = [list_at_start |-> list_file,
                    workers |-> [w \in Workers |->
                                    [at |-> "start", op |-> ops[w], lines |-> <<>>]]]

\* add_title_to_list, lines 29-37: open the file, read its lines, return if
\* the title is there; the lines to write are those read with the title
\* inserted (lines 41-63). No lock is held.
ReadListFile(w) ==
    /\ client.workers[w].at = "start"
    /\ client.workers[w].op.kind = "add"
    /\ LET lines == ApplyOp(list_file, client.workers[w].op)
       IN  client' = [client EXCEPT
                        !.workers[w].at = IF lines = list_file THEN "done" ELSE "write",
                        !.workers[w].lines = lines]
    /\ UNCHANGED list_file
    /\ UNCHANGED list_frame

\* add_title_to_list, lines 66-68: seek(0), truncate, writelines
WriteListFile(w) ==
    /\ client.workers[w].at = "write"
    /\ list_file' = client.workers[w].lines
    /\ client' = [client EXCEPT !.workers[w].at = "done"]
    /\ UNCHANGED list_frame

\* update_title_in_list: read, change and write under the list mutex, which
\* add_title_to_list does not take
UpdateTitleInList(w) ==
    /\ client.workers[w].at = "start"
    /\ client.workers[w].op.kind = "update"
    /\ list_file' = ApplyOp(list_file, client.workers[w].op)
    /\ client' = [client EXCEPT !.workers[w].at = "done"]
    /\ UNCHANGED list_frame

ListNext ==
    \E w \in Workers :
        \/ ReadListFile(w)
        \/ WriteListFile(w)
        \/ UpdateTitleInList(w)

ListSpec == ListInit /\ [][ListNext]_vars

-----------------------------------------------------------------------------
(* The watch list *)

\* the line is under the "## new" header
InNewSection(lines, k) ==
    \E h \in 1..k-1 :
        /\ lines[h] = Header("new")
        /\ \A i \in h+1..k-1 : lines[i].kind # "header"

\* the lines without line k
WithoutLine(lines, k) == SubSeq(lines, 1, k - 1) \o SubSeq(lines, k + 1, Len(lines))

\* C27: add_title_to_list leaves the file as it is when some entry of the file
\* has the same normalised, simplified form as the title; otherwise it adds
\* exactly one line, inside "## new" (created at the end when missing), and
\* changes no other line.
C27_AddTitleDedupsSimplified ==
    (pc = "c_call" /\ client.last.op = "add_title") =>
        LET before == client.last.list_before
            title == client.last.title
            lang == client.last.lang
            present == \E i \in 1..Len(before) :
                           /\ IsEntry(before[i])
                           /\ before[i].lang = lang
                           /\ t2s(ReplaceUnderscores(before[i].text))
                                  = t2s(ReplaceUnderscores(title))
        IN  IF present THEN list_file = before
            ELSE \/ \E k \in 1..Len(list_file) :
                        /\ list_file[k] = Entry(lang, title)
                        /\ WithoutLine(list_file, k) = before
                        /\ InNewSection(list_file, k)
                 \/ /\ \A i \in 1..Len(before) : before[i] # Header("new")
                    /\ list_file = before \o <<BlankLine, Header("new"), BlankLine,
                                               Entry(lang, title)>>

\* the file after the workers' operations one after the other, in some order
RECURSIVE SequentialResults(_, _)
SequentialResults(lines, todo) ==
    IF todo = {} THEN {lines}
    ELSE UNION {SequentialResults(ApplyOp(lines, client.workers[w].op), todo \ {w}) :
                   w \in todo}

\* C28: the watch-list operations of concurrent workers are serialized: when
\* all of them have returned, the file is what applying the operations one
\* after the other, in some order, gives.
C28_ListOperationsSerialized ==
    (pc = "w_run" /\ \A w \in Workers : client.workers[w].at = "done")
    => list_file \in SequentialResults(client.list_at_start, Workers)

-----------------------------------------------------------------------------
(* The limiter of the wiki requests: a window limiter without a daily quota *)

\* C29: no two wiki requests are admitted less than 1/rate apart, the rate
\* being max_requests per per_seconds, under any interleaving of the callers.
C29_MinimumGapBetweenAdmissions ==
    (pc = "l_run" /\ limiter.rpd_limit = NoLimit) =>
        \A i, j \in DOMAIN limiter.admitted :
            i < j => (limiter.admitted[j] - limiter.admitted[i]) * limiter.max_requests
                         >= limiter.per_seconds

-----------------------------------------------------------------------------
(* The daily counter of a limiter with an RPD limit *)

\* the callers whose call was counted
CountedCallers == {t \in Callers : limiter.callers[t].incremented}

\* C30: with an RPD limit, a call that was admitted and has returned added
\* exactly one to daily_count when f returned a result, nothing or one when f
\* returned None, and nothing when f raised, the exception leaving the wrapper;
\* daily_count is the count loaded at the start plus one for each counted
\* call, so it never decreases, and it is what the counter file holds unless
\* a write of the file failed.
C30_DailyCountPerCall ==
    (pc = "l_run" /\ limiter.rpd_limit # NoLimit) =>
        /\ limiter.daily_count = limiter.loaded_count + Cardinality(CountedCallers)
        /\ ~limiter.write_failed => limiter.counter_file = limiter.daily_count
        /\ \A t \in Callers :
              (limiter.callers[t].invoked /\ limiter.callers[t].pc = "idle") =>
                  /\ limiter.callers[t].raised => ~limiter.callers[t].incremented
                  /\ (~limiter.callers[t].raised /\ limiter.callers[t].result # "None")
                         => limiter.callers[t].incremented

\* one call returned a result and was counted, one returned None and was not
\* counted, and one raised
C30_CountedSkippedAndRaised ==
    /\ pc = "l_run"
    /\ limiter.rpd_limit # NoLimit
    /\ \E t \in Callers :
          /\ limiter.callers[t].pc = "idle" /\ limiter.callers[t].incremented
          /\ limiter.callers[t].result = "True"
    /\ \E t \in Callers :
          /\ limiter.callers[t].pc = "idle" /\ limiter.callers[t].invoked
          /\ limiter.callers[t].result = "None" /\ ~limiter.callers[t].incremented
    /\ \E t \in Callers :
          /\ limiter.callers[t].pc = "idle" /\ limiter.callers[t].raised
    /\ limiter.daily_count = limiter.loaded_count + 1

-----------------------------------------------------------------------------
(* Fragments across Merger runs *)

\* the fragment can be processed to the end: it parses and none of its nodes raises
Sound(file) ==
    /\ ~Get(file, "unreadable", FALSE)
    /\ \A i \in 1..Len(file.nodes) : "k" \notin DOMAIN Get(file.nodes[i], "name", EmptyDict)

\* the run has listed the files it processes
Listed == pc \in {"m_file", "m_node", "m_done", "m_unsaved"}

\* C32: a run reads no fragment whose name is in the processed-files log; a
\* name is in the log, beyond those it started with, only if the fragment was
\* processed with success; a fragment whose processing fails is not logged and
\* is among the files of the next run.
C32_LoggedOnceOnSuccess ==
    /\ pc \in {"m_file", "m_node"} =>
          \A i \in DOMAIN merger.source_files_to_process :
              merger.source_files_to_process[i].name \notin processed_files
    /\ Listed =>
          \A i \in DOMAIN merger.files_processed_this_run :
              \E k \in DOMAIN merger.source_files_to_process :
                  /\ merger.source_files_to_process[k].name = merger.files_processed_this_run[i]
                  /\ Sound(merger.source_files_to_process[k])
    /\ \A i \in DOMAIN data_files :
          data_files[i].name # "f0" =>
              /\ data_files[i].name \in processed_files => Sound(data_files[i])
              /\ (~Sound(data_files[i]) /\ Listed) =>
                     \E k \in DOMAIN merger.source_files_to_process :
                         merger.source_files_to_process[k] = data_files[i]
    /\ Listed => \A k \in DOMAIN merger.source_files_to_process :
                     merger.source_files_to_process[k].name # "f0"

\* the second run has ended: the fragment merged in the first run was not
\* among its files, the fragment that failed in the first run was, failed
\* again and is still not in the log
C32_FailedFragmentTriedAgain ==
    /\ pc = "m_done"
    /\ pass = MaxRuns
    /\ "f1" \in processed_files
    /\ "f2" \notin processed_files
    /\ Len(merger.source_files_to_process) = 1
    /\ merger.source_files_to_process[1].name = "f2"
    /\ ~Unreadable(merger.source_files_to_process[1])

\* the files of this run that were processed with success so far
FilesProcessed ==
    SelectSeq(merger.source_files_to_process,
              LAMBDA f : f.name \in Range(merger.files_processed_this_run))

\* the maps of a first run in which only those files had been processed
MapsOfProcessed ==
    ProcessFiles(Update(_load_graph_and_log(NoGraph, PersonList, EmptyDict),
                        [limiter |-> IdleLimiter]),
                 FilesProcessed, Wiki, Llm)

\* C40: a fragment whose processing fails midway leaves master_nodes_map,
\* name_to_qcode_map and the relationship index as they were before it: between
\* two files of a run the maps are those of the files processed with success,
\* and the graph the run writes holds nothing of a fragment that is not logged.
C40_FailedFragmentLeavesNoTrace ==
    /\ (pc = "m_file" /\ pass = 1) =>
          /\ merger.master_nodes_map = MapsOfProcessed.master_nodes_map
          /\ merger.name_to_qcode_map = MapsOfProcessed.name_to_qcode_map
          /\ merger.master_rels_map = MapsOfProcessed.master_rels_map
    /\ (pc = "m_done" /\ pass = 1) => master_graph = MergedGraph(MapsOfProcessed)

-----------------------------------------------------------------------------
(* The Merger's name index *)

\* the names of a stored node, in every language
NamesOfNode(node) == UNION {Range(node["name"][lang]) : lang \in DOMAIN node["name"]}

\* the ids of the stored nodes that carry the name
IdsNamed(name) ==
    {id \in DOMAIN merger.master_nodes_map : name \in NamesOfNode(merger.master_nodes_map[id])}

\* C38: during a run every name of every node of master_nodes_map, temporary
\* ids included, is a key of name_to_qcode_map, and every value of
\* name_to_qcode_map is a key of master_nodes_map; a fragment node whose
\* primary name is a name of a stored node does not replace that node: without
\* an LLM merge the stored node keeps its properties.
C38_EveryNameIndexed ==
    pc \in {"m_file", "m_node"} =>
        /\ \A id \in DOMAIN merger.master_nodes_map :
               NamesOfNode(merger.master_nodes_map[id]) \subseteq DOMAIN merger.name_to_qcode_map
        /\ \A name \in DOMAIN merger.name_to_qcode_map :
               merger.name_to_qcode_map[name] \in DOMAIN merger.master_nodes_map
        /\ (pc = "m_node" /\ merger.new_data.nodes # <<>>
                /\ ~ShouldTrigger(Update(Llm, limiter))) =>
               \A id \in IdsNamed(PrimaryName(NextNode)) :
                   ProcessNode(MergerState, NextNode, Wiki, Llm).master_nodes_map[id]["properties"]
                       = merger.master_nodes_map[id]["properties"]

-----------------------------------------------------------------------------
(* The order of the Merger's identity resolution *)

\* lines 250-289: what _process_single_file consults for one fragment node, in
\* the order of the code: the name index, then check_link_status, then get_qcode
ResolutionSteps(st, new_node, wiki) ==
    LET primary_name == PrimaryName(new_node)
        link == check_link_status(st.link_cache, primary_name, wiki.links)
    IN  IF primary_name = "" THEN <<>>
        ELSE IF primary_name \in DOMAIN st.name_to_qcode_map THEN <<"name_to_qcode_map">>
        ELSE IF link.status \in {"REDIRECT", "DISAMBIG"}
        THEN <<"name_to_qcode_map", "check_link_status">>
        ELSE <<"name_to_qcode_map", "check_link_status", "get_qcode">>

\* C35: for each fragment node the identity resolution calls get_qcode first,
\* consults the name index only when get_qcode returned no Q-code, and calls
\* check_link_status only when neither of them gave an id.
C35_QcodeLookedUpFirst ==
    (pc = "m_node" /\ merger.new_data.nodes # <<>> /\ PrimaryName(NextNode) # "") =>
        LET steps == ResolutionSteps(MergerState, NextNode, Wiki)
            qcode == get_qcode_id(PrimaryName(NextNode), Wiki.fetch)
        IN  /\ steps[1] = "get_qcode"
            /\ "name_to_qcode_map" \in Range(steps) => qcode = ""
            /\ "check_link_status" \in Range(steps) =>
                   qcode = "" /\ PrimaryName(NextNode) \notin DOMAIN merger.name_to_qcode_map

-----------------------------------------------------------------------------
(* The watch list after step 2 *)

\* LIST_UPDATE_LIMIT on the scale of the model's lists: a list with more
\* entries than this is sampled
ListSampleLimit == 2

\* step 2 on a list longer than the limit: random.sample(list(tasks), limit)
UpdateSampledListNames ==
    /\ pc = "step2"
    /\ \E tasks_to_run \in Samples(ListTasks(list_file), ListSampleLimit) :
           list_file' = _update_list_names(list_file, tasks_to_run, TitleStatus(stub.list))
    /\ pc' = "step3"
    /\ UNCHANGED merger_vars
    /\ UNCHANGED client
    /\ UNCHANGED limiter
    /\ UNCHANGED <<nodes, relationships, master_graph, false_relations_cache, link_cache,
                   stub, pass, first_graph>>

RefreshNext ==
    \/ UpdateMasterGraphNames
    \/ UpdateSampledListNames
    \/ CorrectNodeTypesFromList
    \/ PruneRels
    \/ ValidateAndCleanSchema
    \/ CleanIndividualRelationships
    \/ CleanStaleCache
    \/ ResolveTemporaryNodes
    \/ SaveMasterGraph

RefreshSpec == Init /\ [][RefreshNext]_vars

\* the lines that are no entries: section headers, comments, blank lines
Structure(lines) == SelectSeq(lines, LAMBDA line : ~IsEntry(line))

\* no two entry lines with the same simplified form
NoSimplifiedTwice(lines) ==
    \A i, j \in 1..Len(lines) :
        (i < j /\ IsEntry(lines[i]) /\ IsEntry(lines[j])) =>
            t2s(lines[i].text) # t2s(lines[j].text)

\* the entries of the tasks whose lookup answered DISAMBIG or NOT_FOUND
BadEntries(tasks_to_run, title_status) ==
    {key \in tasks_to_run :
        ListWorker(key, title_status).status \in {"DISAMBIG", "NOT_FOUND"}}

\* C34: after the watch-list refresh no two entry lines of the rewritten file
\* have the same simplified form, no entry whose lookup answered DISAMBIG or
\* NOT_FOUND remains, and the headers, comments and blank lines of the
\* original file are all kept, unchanged and in their order.
C34_RefreshedListCleanAndStructured ==
    pc = "step2" =>
        \A tasks_to_run \in Samples(ListTasks(list_file), ListSampleLimit) :
            LET final_lines == _update_list_names(list_file, tasks_to_run,
                                   TitleStatus(stub.list))
            IN  /\ NoSimplifiedTwice(final_lines)
                /\ ListTasks(final_lines) \cap BadEntries(tasks_to_run, TitleStatus(stub.list)) = {}
                /\ Structure(final_lines) = Structure(list_file)

-----------------------------------------------------------------------------
(* The daily quota under concurrent callers *)

\* the callers whose call of func was made
InvokedCallers == {t \in Callers : limiter.callers[t].invoked}

\* the callers whose func returned None
NullResults == {t \in Callers : limiter.callers[t].result = "None"}

\* C36: under any interleaving of the callers of one limiter with an RPD
\* limit, daily_count never exceeds rpd_limit, and when the count started at 0
\* the number of invocations of func is at most rpd_limit plus the number of
\* None results.
C36_QuotaHoldsUnderConcurrency ==
    (pc = "l_run" /\ limiter.rpd_limit # NoLimit) =>
        /\ limiter.daily_count <= limiter.rpd_limit
        /\ limiter.loaded_count = 0 =>
               Cardinality(InvokedCallers) <= limiter.rpd_limit + Cardinality(NullResults)

-----------------------------------------------------------------------------
(* Two limiters on one counter file: gemini_flash_limiter and              *)
(* gemini_flash_preview_limiter are both built with counter_name           *)
(* 'gemini_flash', each with its own daily_count and its own lock.         *)

\* the RPD limit of the two limiters, on the scale of the model
SharedRpdLimit == 4

FlashLimiters == {"gemini_flash_limiter", "gemini_flash_preview_limiter"}

\* __init__ and _load_daily_counter: both objects read today's count from the
\* file when the module is imported
SharedCounterInit ==
    /\ pc = "s_run"
    /\ client = IdleClient
    /\ pass = 1
    /\ nodes = <<>>
    /\ relationships = <<>>
    /\ first_graph = NoGraph
    /\ master_graph = NoGraph
    /\ false_relations_cache = EmptyDict
    /\ link_cache = EmptyDict
    /\ list_file = EmptyList
    /\ stub = PlainStub
    /\ merger = IdleMerger
    /\ data_files = <<>>
    /\ processed_files = {}
    /\ \E count \in 0..SharedRpdLimit :
          limiter = [instances |-> [name \in FlashLimiters |->
                                       [rpd_limit |-> SharedRpdLimit, daily_count |-> count]],
                     counter_file |-> count,
                     loaded_count |-> count,
                     counted |-> [name \in FlashLimiters |-> 0],
                     skipped |-> [name \in FlashLimiters |-> 0],
                     write_failed |-> FALSE]

\* one call through the wrapper of one of the two limiters: the quota test of
\* _check_and_wait, func, and for a call that counts increment_and_save with
\* its write of {'date', 'count': self.daily_count} to the shared file
SharedLimitedCall(name) ==
    /\ pc = "s_run"
    /\ LET lim == limiter.instances[name]
       IN  IF QuotaExhausted(lim)
           THEN /\ limiter.skipped[name] = 0
                /\ limiter' = [limiter EXCEPT !.skipped[name] = 1]
           ELSE \E counted \in BOOLEAN, written \in BOOLEAN :
                    LET after == IF counted THEN increment_and_save(lim) ELSE lim
                    IN  limiter' =
                            [limiter EXCEPT
                                !.instances[name] = after,
                                !.counted[name] = IF counted THEN @ + 1 ELSE @,
                                !.counter_file = IF counted /\ written
                                                 THEN after.daily_count ELSE @,
                                !.write_failed = @ \/ (counted /\ ~written)]
    /\ UNCHANGED pipeline_vars
    /\ UNCHANGED client

SharedCounterNext == \E name \in FlashLimiters : SharedLimitedCall(name)

SharedCounterSpec == SharedCounterInit /\ [][SharedCounterNext]_vars

\* the counted calls made through both limiters since the module was imported
CountedThroughBoth ==
    limiter.counted["gemini_flash_limiter"] + limiter.counted["gemini_flash_preview_limiter"]

\* C37: with gemini_flash_limiter and gemini_flash_preview_limiter on the same
\* counter name, the count in the shared counter file is always the number of
\* counted calls made today through both of them: the count the file held when
\* they were built plus every call counted since, no write having failed.
C37_SharedFileCountsEveryCall ==
    (pc = "s_run" /\ ~limiter.write_failed) =>
        limiter.counter_file = limiter.loaded_count + CountedThroughBoth

-----------------------------------------------------------------------------
(* ListProcessor: runs of the list processor. Every eligible item of a run *)
(* is a task of the thread pool; the tasks run _process_item concurrently. *)
(* `client` holds the processor: the day and the second of the wall clock, *)
(* the tasks, the fragment files on disk (`dirs`) and the fragments        *)
(* written so far (`written`).                                             *)

MaxProcRuns == 3
MaxSec == 1

processor_frame == <<nodes, relationships, master_graph, false_relations_cache, link_cache,
                     stub, pass, first_graph, merger, data_files, processed_files, limiter>>

PairList ==
    <<Header("person"), Entry("zh", "a"), Entry("zh", "A"), Header("new"), Entry("zh", "B")>>
SectionList ==
    <<Header("person"), Entry("zh", "At"), Header("organization"), Entry("zh", "A"),
      Entry("zh", "B")>>

\* the index of the '## new' header that ends the parse, or past the end
NewSectionAt(lines) ==
    LET news == {i \in 1..Len(lines) : lines[i].kind = "header" /\ lines[i].text = "new"}
    IN  IF news = {} THEN Len(lines) + 1 ELSE CHOOSE i \in news : \A j \in news : i <= j

\* current_category at line i: the last header above it
CategoryAt(lines, i) ==
    LET headers == {j \in 1..i : lines[j].kind = "header"}
    IN  IF headers = {} THEN ""
        ELSE lines[CHOOSE j \in headers : \A k \in headers : k <= j].text

\* ListProcessor._parse_list_file: the (item_name, lang) pairs of each category
_parse_list_file(lines) ==
    {[name |-> lines[i].text, lang |-> lines[i].lang, category |-> CategoryAt(lines, i)] :
        i \in {j \in 1..NewSectionAt(lines) - 1 :
                  IsEntry(lines[j]) /\ CategoryAt(lines, j) # ""}}

\* the JSON files of DATA_DIR/category/sanitize_filename(title)
FilesOf(dirs, category, title) ==
    {f \in dirs : f.category = category /\ f.title = title}

\* the later of two file timestamps
Newer(f, g) == f.day > g.day \/ (f.day = g.day /\ f.sec >= g.sec)

\* ListProcessor._get_last_local_process_time: the directory is looked up
\* under the item's name; the age of its newest file in half days, or None
_get_last_local_process_time(dirs, item, today) ==
    LET files == FilesOf(dirs, item.category, item.name)
    IN  IF files = {} THEN None
        ELSE [age |-> 2 * (today - (CHOOSE f \in files : \A g \in files : Newer(f, g)).day)]

IdleProcessor ==
    [day |-> 0, sec |-> 0, run |-> 1, tasks |-> <<>>, dirs |-> {}, written |-> {}]

ProcessInit ==
    /\ pc = "p_start"
    /\ client = IdleProcessor
    /\ pass = 1
    /\ nodes = <<>>
    /\ relationships = <<>>
    /\ first_graph = NoGraph
    /\ master_graph = NoGraph
    /\ false_relations_cache = EmptyDict
    /\ link_cache = EmptyDict
    /\ merger = IdleMerger
    /\ limiter = IdleLimiter
    /\ data_files = <<>>
    /\ processed_files = {}
    /\ list_file \in {PairList, SectionList, PersonList}
    /\ stub \in {[PlainStub EXCEPT !.fetch = f] : f \in {"wiki", "same"}}

\* steps 1-4 of a run: parse LIST.md, screen the items with
\* _should_process_item, hand the eligible ones to the pool
StartRun ==
    /\ pc = "p_start"
    /\ \E revision \in RevisionAnswers, draw \in RandomDraws :
          LET eligible ==
                  {item \in _parse_list_file(list_file) :
                      _should_process_item(
                          _get_last_local_process_time(client.dirs, item, client.day),
                          revision, draw).result}
          IN  /\ client' = [client EXCEPT !.tasks = [item \in eligible |-> [pc |-> "fetch"]]]
              /\ pc' = IF eligible = {} THEN "p_done" ELSE "p_run"
    /\ UNCHANGED list_file
    /\ UNCHANGED processor_frame

\* _process_item, lines 149-158: get_wikitext resolves the final title and
\* rewrites LIST.md when it differs, then fetches the text; parse_wikitext
FetchAndParse(item) ==
    /\ pc = "p_run"
    /\ item \in DOMAIN client.tasks
    /\ client.tasks[item].pc = "fetch"
    /\ LET res == FetchQcode(stub.fetch)[item.name]
       IN  IF res.title = ""
           THEN /\ client' = [client EXCEPT !.tasks[item] = [pc |-> "done"]]
                /\ UNCHANGED list_file
           ELSE /\ list_file' = IF res.title # item.name
                                THEN update_title_in_list(list_file, item.lang, item.name,
                                                          res.title)
                                ELSE list_file
                /\ \E parsed \in BOOLEAN :
                      client' = [client EXCEPT !.tasks[item] =
                                    IF parsed THEN [pc |-> "write", final_title |-> res.title]
                                    ELSE [pc |-> "done"]]
    /\ UNCHANGED pc
    /\ UNCHANGED processor_frame

\* lines 160-172: the fragment is written to
\* DATA_DIR/category/final_title/final_title_<timestamp>.json
WriteFragment(item) ==
    /\ pc = "p_run"
    /\ item \in DOMAIN client.tasks
    /\ client.tasks[item].pc = "write"
    /\ LET task == client.tasks[item]
           file == [category |-> item.category, title |-> task.final_title,
                    day |-> client.day, sec |-> client.sec]
       IN  client' = [client EXCEPT
                         !.dirs = @ \cup {file},
                         !.written = @ \cup {[item |-> item, file |-> file]},
                         !.tasks[item] = [pc |-> "list", final_title |-> task.final_title,
                                          file |-> file]]
    /\ UNCHANGED list_file
    /\ UNCHANGED pc
    /\ UNCHANGED processor_frame

\* line 177: os.listdir(output_dir), the other JSON files are the old ones
ListOutputDir(item) ==
    /\ pc = "p_run"
    /\ item \in DOMAIN client.tasks
    /\ client.tasks[item].pc = "list"
    /\ LET task == client.tasks[item]
           old == FilesOf(client.dirs, item.category, task.final_title) \ {task.file}
       IN  client' = [client EXCEPT !.tasks[item] =
                         IF old = {} THEN [pc |-> "done"]
                         ELSE [pc |-> "remove", old |-> old]]
    /\ UNCHANGED list_file
    /\ UNCHANGED pc
    /\ UNCHANGED processor_frame

\* lines 178-182: os.remove of one old file; a file that is gone raises
\* FileNotFoundError, which `except Exception` logs, and the loop is over
RemoveOldFile(item) ==
    /\ pc = "p_run"
    /\ item \in DOMAIN client.tasks
    /\ client.tasks[item].pc = "remove"
    /\ \E old_file \in client.tasks[item].old :
          LET rest == client.tasks[item].old \ {old_file}
          IN  IF old_file \in client.dirs
              THEN client' = [client EXCEPT
                                 !.dirs = @ \ {old_file},
                                 !.tasks[item] = IF rest = {} THEN [pc |-> "done"]
                                                 ELSE [pc |-> "remove", old |-> rest]]
              ELSE client' = [client EXCEPT !.tasks[item] = [pc |-> "done"]]
    /\ UNCHANGED list_file
    /\ UNCHANGED pc
    /\ UNCHANGED processor_frame

\* datetime.now() moves on to the next second
TickSecond ==
    /\ pc = "p_run"
    /\ client.sec < MaxSec
    /\ client' = [client EXCEPT !.sec = @ + 1]
    /\ UNCHANGED list_file
    /\ UNCHANGED pc
    /\ UNCHANGED processor_frame

\* lines 300-305: every future has completed
FinishRun ==
    /\ pc = "p_run"
    /\ \A item \in DOMAIN client.tasks : client.tasks[item].pc = "done"
    /\ pc' = "p_done"
    /\ UNCHANGED <<client, list_file>>
    /\ UNCHANGED processor_frame

\* the next run of the processor, a day or eight days later
NextRun ==
    /\ pc = "p_done"
    /\ client.run < MaxProcRuns
    /\ \E days \in {1, 8} :
          client' = [client EXCEPT !.day = @ + days, !.sec = 0, !.run = @ + 1,
                                   !.tasks = <<>>]
    /\ pc' = "p_start"
    /\ UNCHANGED list_file
    /\ UNCHANGED processor_frame

ProcessNext ==
    \/ StartRun
    \/ \E item \in DOMAIN client.tasks : FetchAndParse(item)
    \/ \E item \in DOMAIN client.tasks : WriteFragment(item)
    \/ \E item \in DOMAIN client.tasks : ListOutputDir(item)
    \/ \E item \in DOMAIN client.tasks : RemoveOldFile(item)
    \/ TickSecond
    \/ FinishRun
    \/ NextRun

ProcessSpec == ProcessInit /\ [][ProcessNext]_vars

\* the fragments written in the current run
WrittenThisRun == {w \in client.written : w.file.day = client.day}

\* C33: when a run of the list processor is over, the fragment directory of
\* every final title for which an item was processed in that run holds exactly
\* one JSON file, the newest one written; also when two list entries that
\* resolve to the same final title were processed concurrently.
C33_OneNewestFragmentPerTitle ==
    pc = "p_done" =>
        \A w \in WrittenThisRun :
            LET files == FilesOf(client.dirs, w.file.category, w.file.title)
            IN  /\ Cardinality(files) = 1
                /\ \A f \in files : \A v \in WrittenThisRun :
                       (v.file.category = w.file.category /\ v.file.title = w.file.title)
                           => Newer(f, v.file)

\* C39: once _process_item has written a fragment for a list item,
\* _should_process_item answers False for that item in every later run that
\* starts within PROB_START_DAY days of the write, whatever the wiki and the
\* random draw say, also when the fragment went under another final title.
C39_ProcessedItemNotEligibleAgain ==
    pc = "p_start" =>
        \A item \in _parse_list_file(list_file) : \A w \in client.written :
            (w.item = item /\ client.day - w.file.day <= PROB_START_DAY) =>
                \A revision \in RevisionAnswers, draw \in RandomDraws :
                    ~_should_process_item(
                         _get_last_local_process_time(client.dirs, item, client.day),
                         revision, draw).result

====
